---- MODULE Spec2Model ----
(***************************************************************************)
(* State-machine model of the two device drivers of STM32-inclinometer:    *)
(*   Core/Src/hardware/accelerometer/ADXL345.c  (ADXL345 accelerometer)    *)
(*   Core/Src/hardware/screen/SSD1306.c         (SSD1306 OLED display)     *)
(*                                                                         *)
(* One action per public entry point.  An update action runs the whole     *)
(* state function the state pointer designates, every bus transaction it   *)
(* makes included.  What the hardware answers during a call (bus flags,    *)
(* bytes read, the watermark pin, the DMA flags) is an input of the        *)
(* action, drawn from the small sets defined below.                        *)
(***************************************************************************)
EXTENDS Integers, Sequences, FiniteSets, TLC

VARIABLES
    \* ---- ADXL345.c
    adxl_state,                 \* _state : name of the current state function
    adxlTimer_ms,               \* adxlTimer_ms
    adxlSPITimer_ms,            \* adxlSPITimer_ms
    adxl_result,                \* _result
    adxl_measurementsUpdated,   \* _measurementsUpdated
    adxl_latestValues,          \* _latestValues[NB_AXIS]
    adxl_previousValues,        \* _previousValues[NB_AXIS]
    adxl_zeroValues,            \* _zeroValues[NB_AXIS]
    adxl_spiEnabled,            \* SPE bit of the bus behind _spiHandle
    \* what the last ADXL345 call returned and did on the bus
    adxl_ret,                   \* value returned by the last ADXL345update()
    adxl_hasChangedRet,         \* value returned by the last ADXL345hasChanged()
    adxl_hasChangedAxis,        \* axis argument of the last ADXL345hasChanged()
    adxl_written,               \* register writes attempted by the last ADXL345update()
    adxl_reads,                 \* burst reads attempted by the last ADXL345update()
    adxl_STdeltas,              \* STdeltas[] of the last call, <<>> when not computed
    adxl_fifo,                  \* samples held by the device's FIFO, oldest first, where fixed
    adxl_registers,             \* value last transmitted to each register by ADXL345update()
    adxl_deviceID,              \* byte the last identity read of stStartup() received, 0 if none
    \* ---- SSD1306.c
    ssd_state,                  \* _state
    screenTimer_ms,             \* screenTimer_ms
    ssd1306SPITimer_ms,         \* ssd1306SPITimer_ms
    ssd_limitColumns,           \* _limitColumns[2]
    ssd_limitPages,             \* _limitPages[2]
    ssd_size,                   \* _size
    ssd_screenBuffer,           \* what the head of _screenBuffer holds
    ssd_spiEnabled,             \* SPE bit of the bus behind _spiHandle
    ssd_dcPin,                  \* data/command GPIO : "COMMAND" or "DATA"
    dmaChannelEnabled,          \* EN bit of the DMA channel
    dmaDataLength,              \* data length register of the DMA channel
    dmaRequestTX,               \* TXDMAEN : the bus requests bytes from the DMA
    dmaTC,                      \* transfer complete flag of the DMA channel
    dmaTE,                      \* transfer error flag of the DMA channel
    \* what the last SSD1306 call returned and did on the bus
    ssd_ret,                    \* value returned by the last SSD1306update()
    ssd_sent,                   \* commands attempted by the last SSD1306update()
    ssd_resets,                 \* reset pulses given by the last SSD1306update()
    ssd_staged,                 \* the buffer-preparation call that staged the region
    \* ---- history
    lastCall,                   \* name of the last entry point (or tick) that ran
    prevState,                  \* state pointer of the called driver on entry
    \* ---- one bus transaction, statement by statement
    bus                         \* the transaction in progress : function, position, locals

adxlVars == <<adxl_state, adxlTimer_ms, adxlSPITimer_ms, adxl_result,
              adxl_measurementsUpdated, adxl_latestValues, adxl_previousValues,
              adxl_zeroValues, adxl_spiEnabled, adxl_ret, adxl_hasChangedRet, adxl_hasChangedAxis,
              adxl_written, adxl_reads, adxl_STdeltas, adxl_fifo,
              adxl_registers, adxl_deviceID>>

ssdVars == <<ssd_state, screenTimer_ms, ssd1306SPITimer_ms, ssd_limitColumns,
             ssd_limitPages, ssd_size, ssd_screenBuffer, ssd_spiEnabled, ssd_dcPin,
             dmaChannelEnabled, dmaDataLength, dmaRequestTX, dmaTC, dmaTE, ssd_ret,
             ssd_sent, ssd_resets, ssd_staged>>

vars == <<adxlVars, ssdVars, lastCall, prevState, bus>>

-----------------------------------------------------------------------------
(* Error codes (errorstack.h, section 4.1 of the specification)            *)

ERR_SUCCESS == [origin |-> "NONE", detail |-> 0, severity |-> "none"]

createErrorCode(origin, detail, severity) ==
    [origin |-> origin, detail |-> detail, severity |-> severity]

\* the new origin, the severity of the inner code, the innermost non-zero detail
pushErrorCode(inner, origin, detail) ==
    [origin   |-> origin,
     detail   |-> IF inner.detail # 0 THEN inner.detail ELSE detail,
     severity |-> inner.severity]

isError(code) == code.severity # "none"

-----------------------------------------------------------------------------
(* Constants                                                               *)

SPI_TIMEOUT_MS == 10
INT_TIMEOUT_MS == 1000
NB_REG_INIT == 6
ADXL_AVG_SHIFT == 5
ST_WAIT_MS == 25

\* ADXL345.h / ADXL345registers.h (register map of the ADXL345 datasheet)
NB_AXIS == 3
X_AXIS == 0
Y_AXIS == 1
Z_AXIS == 2
ADXL_SAMPLES_32 == 32
ADXL_AVG_SAMPLES == ADXL_SAMPLES_32
ADXL_NB_DATA_REGISTERS == 6
ADXL_DEVICE_ID == 229
DEVICE_ID == 0
BANDWIDTH_POWERMODE == 44
POWER_CONTROL == 45
INTERRUPT_ENABLE == 46
DATA_FORMAT == 49
DATA_X0 == 50
FIFO_CONTROL == 56
ADXL_REGISTER_MAXNB == 57
ADXL_HIGH_RESERVED_REG == 28

\* register values : the set of the bit fields or-ed together
DATA_FORMAT_DEFAULT == {"ADXL_NO_SELF_TEST", "ADXL_SPI_4WIRE", "ADXL_INT_ACTIV_LOW",
                        "ADXL_13BIT_RESOL", "ADXL_RIGHT_JUSTIFY", "ADXL_RANGE_16G"}
FIFO_CONTROL_DEFAULT == {"ADXL_MODE_FIFO", "ADXL_INT_MAP_INT1", "ADXL_AVG_SAMPLES - 1"}

Axes == 0 .. (NB_AXIS - 1)
ZeroValues == [axis \in Axes |-> 0]

\* decrement of a countdown timer by d ticks, clamped at zero
Decr(t, d) == IF t > d THEN t - d ELSE 0

-----------------------------------------------------------------------------
(* ADXL345.c : bus transactions                                            *)

\* Answers of the bus to a register write.  A transaction yields `armed`
\* (whether it armed the transaction timer and used the bus), what it
\* transmitted, the timer it leaves when armed and the milliseconds it took :
\* none to speak of when the bus answers, the whole span when a flag is stuck.
WriteResponses == {"ok", "txeStuck", "bsyStuck"}

\* Answers of the bus to a burst read : kind "rxneStuck" means that RXNE wait
\* number `at` never completes (wait 0 follows the opcode, wait k the k-th
\* filler byte).
ReadOk == [kind |-> "ok", at |-> 0]
ReadResponses(size) ==
    {ReadOk, [kind |-> "bsyStuck", at |-> 0]}
        \cup {[kind |-> "rxneStuck", at |-> k] : k \in 0 .. size}

writeRegister(registerNumber, value, resp) ==
    IF \/ registerNumber > ADXL_REGISTER_MAXNB
       \/ ((registerNumber - 1) % 256) < ADXL_HIGH_RESERVED_REG
    THEN [result   |-> createErrorCode("WRITE_REGISTER", 1, "warning"),
          armed    |-> FALSE,
          tx       |-> <<>>,
          spiTimer |-> 0,
          elapsed  |-> 0]
    ELSE LET opcode    == <<"ADXL_WRITE", "ADXL_SINGLE", registerNumber>>
             \* timer once the wait for TXE is over
             afterTXE  == IF resp = "txeStuck" THEN 0 ELSE SPI_TIMEOUT_MS
             sent      == IF afterTXE # 0 THEN <<opcode, value>> ELSE <<opcode>>
             \* timer once the wait for BSY is over
             afterBSY  == IF afterTXE # 0 /\ resp = "bsyStuck" THEN 0 ELSE afterTXE
         IN  [result   |-> IF afterBSY = 0
                           THEN createErrorCode("WRITE_REGISTER", 2, "warning")
                           ELSE ERR_SUCCESS,
              armed    |-> TRUE,
              tx       |-> sent,
              spiTimer |-> afterBSY,
              elapsed  |-> SPI_TIMEOUT_MS - afterBSY]

\* data : the bytes the device answers to the filler bytes
readRegisters(firstRegister, size, resp, data) ==
    IF size = 0
    THEN [result |-> ERR_SUCCESS, armed |-> FALSE, fillers |-> 0, value |-> <<>>,
          spiTimer |-> 0, elapsed |-> 0]
    ELSE IF firstRegister > ADXL_REGISTER_MAXNB
    THEN [result |-> createErrorCode("READ_REGISTERS", 1, "warning"),
          armed |-> FALSE, fillers |-> 0, value |-> <<>>,
          spiTimer |-> 0, elapsed |-> 0]
    ELSE LET stuckAt  == IF resp.kind = "rxneStuck" /\ resp.at <= size
                         THEN resp.at ELSE size + 1
             \* the do-while loop runs once at least, then while size && timer
             fillers  == IF stuckAt = 0 THEN 1
                         ELSE IF stuckAt <= size THEN stuckAt ELSE size
             \* bytes captured while the timer was running
             captured == IF stuckAt = 0 THEN 0
                         ELSE IF stuckAt <= size THEN stuckAt - 1 ELSE size
             afterRX  == IF stuckAt <= size THEN 0 ELSE SPI_TIMEOUT_MS
             afterBSY == IF afterRX # 0 /\ resp.kind = "bsyStuck" THEN 0 ELSE afterRX
         IN  [result   |-> IF afterBSY = 0
                           THEN createErrorCode("READ_REGISTERS", 2, "warning")
                           ELSE ERR_SUCCESS,
              armed    |-> TRUE,
              fillers  |-> fillers,
              value    |-> SubSeq(data, 1, captured),
              spiTimer |-> afterBSY,
              elapsed  |-> SPI_TIMEOUT_MS - afterBSY]

-----------------------------------------------------------------------------
(* ADXL345.c : FIFO integration                                            *)

\* the two bytes (LSB first) the device holds for a signed 16-bit value
LowByte(v) == v % 256
HighByte(v) == (v % 65536) \div 256
SampleBytes(sample) ==
    <<LowByte(sample[X_AXIS]), HighByte(sample[X_AXIS]),
      LowByte(sample[Y_AXIS]), HighByte(sample[Y_AXIS]),
      LowByte(sample[Z_AXIS]), HighByte(sample[Z_AXIS])>>

\* bytes[0] and bytes[1] of the C function are lo and hi
twoComplement(lo, hi) ==
    LET word == (hi * 256) + lo
    IN  IF word >= 32768 THEN word - 65536 ELSE word

\* a shift that would round a negative accumulator towards zero
ShiftRight_Truncating(v, n) ==
    IF v < 0 THEN -((-v) \div (2 ^ n)) ELSE v \div (2 ^ n)

\* arithmetic shift right of a signed accumulator
ShiftRight(v, n) == v \div (2 ^ n)

\* The sample loop of integrateFIFO, from sample i on.  acc.values is the
\* caller's array : it holds the partial sums when a read fails.
RECURSIVE integrateLoop(_, _, _, _)
integrateLoop(i, acc, script, stream) ==
    IF i >= ADXL_AVG_SAMPLES
    THEN acc
    ELSE LET r    == readRegisters(DATA_X0, ADXL_NB_DATA_REGISTERS, script[i], stream[i])
             read == [acc EXCEPT !.result = r.result,
                                 !.spiTimer = IF r.armed THEN r.spiTimer ELSE @,
                                 !.elapsed = @ + r.elapsed, !.reads = @ + 1]
         IN  IF isError(r.result)
             THEN [read EXCEPT !.failed = TRUE,
                               !.ret = pushErrorCode(r.result, "INTEGRATE", 1)]
             ELSE integrateLoop(i + 1,
                     [read EXCEPT !.values =
                         [axis \in Axes |->
                             @[axis] + twoComplement(r.value[(2 * axis) + 1],
                                                     r.value[(2 * axis) + 2])]],
                     script, stream)

integrateFIFO(script, stream) ==
    LET start == [values |-> ZeroValues, result |-> ERR_SUCCESS, ret |-> ERR_SUCCESS,
                  spiTimer |-> adxlSPITimer_ms, elapsed |-> 0, reads |-> 0,
                  failed |-> FALSE]
        done  == integrateLoop(0, start, script, stream)
    IN  IF done.failed
        THEN done
        ELSE [done EXCEPT !.values =
                 [axis \in Axes |-> ShiftRight(done.values[axis], ADXL_AVG_SHIFT)]]

-----------------------------------------------------------------------------
(* ADXL345.c : state functions.  Each yields the values the call leaves.   *)

AdxlStates == <<"stStartup", "stConfiguring", "stMeasuringST_OFF",
                "stWaitingForSTenabled", "stMeasuringST_ON", "stMeasuring">>

\* what a call that does nothing leaves
AdxlEntry ==
    [state    |-> adxl_state,
     ret      |-> ERR_SUCCESS,
     result   |-> adxl_result,
     timer    |-> adxlTimer_ms,
     spiTimer |-> adxlSPITimer_ms,
     latest   |-> adxl_latestValues,
     updated  |-> adxl_measurementsUpdated,
     written  |-> <<>>,
     reads    |-> 0,
     deltas   |-> <<>>,
     deviceID |-> adxl_deviceID,
     elapsed  |-> 0]

\* one register write made by a state function, recorded in the outcome
AfterWrite(out, registerNumber, value, resp) ==
    LET w == writeRegister(registerNumber, value, resp)
    IN  [out EXCEPT !.result   = w.result,
                    !.spiTimer = IF w.armed THEN w.spiTimer ELSE @,
                    !.elapsed  = @ + w.elapsed,
                    !.timer    = Decr(@, w.elapsed),
                    !.written  = Append(@, [register |-> registerNumber,
                                            value |-> value, tx |-> w.tx,
                                            ok |-> ~isError(w.result)])]

\* one FIFO integration made by a state function, recorded in the outcome
\* (_result receives the value integrateFIFO returns)
AfterIntegration(out, fifo) ==
    [out EXCEPT !.result   = fifo.ret,
                !.spiTimer = fifo.spiTimer,
                !.elapsed  = @ + fifo.elapsed,
                !.timer    = Decr(@, fifo.elapsed),
                !.reads    = @ + fifo.reads,
                !.state    = IF fifo.failed THEN "stError" ELSE @]

\* (variant) a matching identity jumps over the configuration
ADXL_stStartup_Skipping(resp, deviceID) ==
    IF adxlTimer_ms = 0
    THEN [AdxlEntry EXCEPT !.state = "stError",
                           !.ret = createErrorCode("STARTUP", 1, "critical")]
    ELSE LET r == readRegisters(DEVICE_ID, 1, resp, <<deviceID>>)
         IN  IF isError(r.result) \/ r.value[1] # ADXL_DEVICE_ID
             THEN [AdxlEntry EXCEPT !.reads = 1]
             ELSE [AdxlEntry EXCEPT !.reads = 1, !.state = "stMeasuringST_OFF"]

\* stStartup() going on to Configuring whatever the identity register holds
ADXL_stStartup_AnyIdentity(resp, deviceID) ==
    IF adxlTimer_ms = 0
    THEN [AdxlEntry EXCEPT !.state = "stError",
                           !.ret = createErrorCode("STARTUP", 1, "critical")]
    ELSE LET r    == readRegisters(DEVICE_ID, 1, resp, <<deviceID>>)
             read == [AdxlEntry EXCEPT !.result = r.result,
                                       !.spiTimer = IF r.armed THEN r.spiTimer ELSE @,
                                       !.elapsed = r.elapsed, !.reads = 1,
                                       !.timer = Decr(@, r.elapsed),
                                       !.deviceID = IF r.value # <<>> THEN r.value[1] ELSE 0]
         IN  IF isError(r.result)
             THEN [read EXCEPT !.ret = pushErrorCode(r.result, "STARTUP", 2)]
             ELSE [read EXCEPT !.state = "stConfiguring"]

ADXL_stStartup(resp, deviceID) ==
    IF adxlTimer_ms = 0
    THEN [AdxlEntry EXCEPT !.state = "stError",
                           !.ret = createErrorCode("STARTUP", 1, "critical")]
    ELSE LET r    == readRegisters(DEVICE_ID, 1, resp, <<deviceID>>)
             \* uint8_t deviceID = 0 : the byte read, if one was received
             read == [AdxlEntry EXCEPT !.result = r.result,
                                       !.spiTimer = IF r.armed THEN r.spiTimer ELSE @,
                                       !.elapsed = r.elapsed, !.reads = 1,
                                       !.timer = Decr(@, r.elapsed),
                                       !.deviceID = IF r.value # <<>> THEN r.value[1] ELSE 0]
         IN  IF isError(r.result)
             THEN [read EXCEPT !.ret = pushErrorCode(r.result, "STARTUP", 2)]
             ELSE IF r.value[1] # ADXL_DEVICE_ID
             THEN read
             ELSE [read EXCEPT !.state = "stConfiguring"]

\* (variant) the FIFO mode is set before the FIFO is flushed
initialisationArray_Swapped ==
    <<<<DATA_FORMAT,         DATA_FORMAT_DEFAULT>>,
      <<BANDWIDTH_POWERMODE, {"ADXL_POWER_NORMAL", "ADXL_RATE_200HZ"}>>,
      <<FIFO_CONTROL,        FIFO_CONTROL_DEFAULT>>,
      <<FIFO_CONTROL,        {"ADXL_MODE_BYPASS"}>>,
      <<POWER_CONTROL,       {"ADXL_MEASURE_MODE"}>>,
      <<INTERRUPT_ENABLE,    {"ADXL_INT_WATERMARK"}>>>>

initialisationArray ==
    <<<<DATA_FORMAT,         DATA_FORMAT_DEFAULT>>,
      <<BANDWIDTH_POWERMODE, {"ADXL_POWER_NORMAL", "ADXL_RATE_200HZ"}>>,
      <<FIFO_CONTROL,        {"ADXL_MODE_BYPASS"}>>,
      <<FIFO_CONTROL,        FIFO_CONTROL_DEFAULT>>,
      <<POWER_CONTROL,       {"ADXL_MEASURE_MODE"}>>,
      <<INTERRUPT_ENABLE,    {"ADXL_INT_WATERMARK"}>>>>

\* the write loop of stConfiguring, from entry i (0-based) on
RECURSIVE configuringLoop(_, _, _)
configuringLoop(i, out, script) ==
    IF i >= NB_REG_INIT
    THEN out
    ELSE LET w == AfterWrite(out, initialisationArray[i + 1][1],
                             initialisationArray[i + 1][2], script[i])
         IN  IF isError(w.result)
             THEN [w EXCEPT !.state = "stError",
                            !.ret = pushErrorCode(w.result, "INIT", 1)]
             ELSE configuringLoop(i + 1, w, script)

ADXL_stConfiguring(script) ==
    LET out == configuringLoop(0, AdxlEntry, script)
    IN  IF out.state = "stError"
        THEN out
        ELSE [out EXCEPT !.timer = INT_TIMEOUT_MS,
                         !.state = "stMeasuringST_OFF",
                         !.ret = out.result]

ADXL_stMeasuringST_OFF(watermark, reads, stream, writes) ==
    IF adxlTimer_ms = 0
    THEN [AdxlEntry EXCEPT !.state = "stError",
                           !.ret = createErrorCode("SELF_TESTING_OFF", 1, "error")]
    ELSE IF ~watermark
    THEN AdxlEntry
    ELSE LET fifo       == integrateFIFO(reads, stream)
             \* integrateFIFO works in _latestValues itself
             integrated == [AfterIntegration(AdxlEntry, fifo) EXCEPT !.latest = fifo.values]
         IN  IF isError(fifo.ret)
             THEN [integrated EXCEPT !.state = "stError",
                                     !.ret = pushErrorCode(fifo.ret, "SELF_TESTING_OFF", 2)]
             ELSE LET w1 == AfterWrite(integrated, DATA_FORMAT,
                                       DATA_FORMAT_DEFAULT \cup {"ADXL_SELF_TEST"}, writes[0])
                  IN  IF isError(w1.result)
                      THEN [w1 EXCEPT !.state = "stError",
                                      !.ret = pushErrorCode(w1.result, "SELF_TESTING_OFF", 3)]
                      ELSE LET w2 == AfterWrite(w1, FIFO_CONTROL, {"ADXL_MODE_BYPASS"}, writes[1])
                           IN  IF isError(w2.result)
                               THEN [w2 EXCEPT !.state = "stError",
                                               !.ret = pushErrorCode(w2.result, "SELF_TESTING_OFF", 4)]
                               ELSE [w2 EXCEPT !.timer = ST_WAIT_MS,
                                               !.state = "stWaitingForSTenabled"]

ADXL_stWaitingForSTenabled(writes) ==
    IF adxlTimer_ms = 0
    THEN AdxlEntry
    ELSE LET w == AfterWrite(AdxlEntry, FIFO_CONTROL, FIFO_CONTROL_DEFAULT, writes[0])
         IN  IF isError(w.result)
             THEN [w EXCEPT !.state = "stError",
                            !.ret = pushErrorCode(w.result, "SELF_TEST_WAIT", 1)]
             ELSE [w EXCEPT !.timer = INT_TIMEOUT_MS,
                            !.state = "stMeasuringST_ON"]

ST_MAXDELTAS == [axis \in Axes |->
                    IF axis = X_AXIS THEN <<85, 949>>
                    ELSE IF axis = Y_AXIS THEN <<-949, -85>>
                    ELSE <<118, 1294>>]

\* the test of stMeasuringST_ON : self-test values out of range
DeltasOutOfRange(deltas) ==
    \E axis \in Axes : \/ deltas[axis] <= ST_MAXDELTAS[axis][1]
                       \/ deltas[axis] >= ST_MAXDELTAS[axis][2]

\* stMeasuringST_ON() going on to Measuring whatever the last write returned
ADXL_stMeasuringST_ON_IgnoringWrite(watermark, reads, stream, writes) ==
    IF adxlTimer_ms = 0
    THEN [AdxlEntry EXCEPT !.state = "stError",
                           !.ret = createErrorCode("SELF_TESTING_ON", 1, "error")]
    ELSE IF ~watermark
    THEN AdxlEntry
    ELSE LET fifo       == integrateFIFO(reads, stream)
             integrated == AfterIntegration(AdxlEntry, fifo)
         IN  IF isError(fifo.ret)
             THEN [integrated EXCEPT !.state = "stError",
                                     !.ret = pushErrorCode(fifo.ret, "SELF_TESTING_ON", 2)]
             ELSE LET STdeltas == [axis \in Axes |->
                                      fifo.values[axis] - adxl_latestValues[axis]]
                      computed == [integrated EXCEPT !.deltas = STdeltas]
                  IN  IF DeltasOutOfRange(STdeltas)
                      THEN [computed EXCEPT !.state = "stError",
                                            !.ret = pushErrorCode(computed.result,
                                                                  "SELF_TESTING_ON", 3)]
                      ELSE LET w == AfterWrite(computed, DATA_FORMAT,
                                               DATA_FORMAT_DEFAULT, writes[0])
                           IN  [w EXCEPT !.timer = INT_TIMEOUT_MS,
                                         !.state = "stMeasuring"]

ADXL_stMeasuringST_ON(watermark, reads, stream, writes) ==
    IF adxlTimer_ms = 0
    THEN [AdxlEntry EXCEPT !.state = "stError",
                           !.ret = createErrorCode("SELF_TESTING_ON", 1, "error")]
    ELSE IF ~watermark
    THEN AdxlEntry
    ELSE LET fifo       == integrateFIFO(reads, stream)
             integrated == AfterIntegration(AdxlEntry, fifo)
         IN  IF isError(fifo.ret)
             THEN [integrated EXCEPT !.state = "stError",
                                     !.ret = pushErrorCode(fifo.ret, "SELF_TESTING_ON", 2)]
             ELSE LET STdeltas == [axis \in Axes |->
                                      fifo.values[axis] - adxl_latestValues[axis]]
                      computed == [integrated EXCEPT !.deltas = STdeltas]
                  IN  IF DeltasOutOfRange(STdeltas)
                      THEN [computed EXCEPT !.state = "stError",
                                            !.ret = pushErrorCode(computed.result,
                                                                  "SELF_TESTING_ON", 3)]
                      ELSE LET w == AfterWrite(computed, DATA_FORMAT,
                                               DATA_FORMAT_DEFAULT, writes[0])
                           IN  IF isError(w.result)
                               THEN [w EXCEPT !.state = "stError",
                                              !.ret = pushErrorCode(w.result,
                                                                    "SELF_TESTING_ON", 4)]
                               ELSE [w EXCEPT !.timer = INT_TIMEOUT_MS,
                                              !.state = "stMeasuring"]

ADXL_stMeasuring(watermark, reads, stream) ==
    IF adxlTimer_ms = 0
    THEN [AdxlEntry EXCEPT !.state = "stError",
                           !.ret = createErrorCode("MEASURE", 1, "error")]
    ELSE IF ~watermark
    THEN AdxlEntry
    ELSE LET rearmed    == [AdxlEntry EXCEPT !.timer = INT_TIMEOUT_MS]
             fifo       == integrateFIFO(reads, stream)
             integrated == [AfterIntegration(rearmed, fifo) EXCEPT !.latest = fifo.values]
         IN  IF isError(fifo.ret)
             THEN [integrated EXCEPT !.state = "stError",
                                     !.ret = pushErrorCode(fifo.ret, "MEASURE", 2)]
             ELSE [integrated EXCEPT !.updated = 1]

\* (variant) the drain state restarts the machine
ADXL_stError_Restarting == [AdxlEntry EXCEPT !.state = "stStartup"]

ADXL_stError == AdxlEntry

-----------------------------------------------------------------------------
(* ADXL345.c : inputs of the calls                                         *)

\* bus answers to n consecutive writes : all good, or one of them stuck
WriteScripts(n) ==
    {[i \in 0 .. (n - 1) |-> "ok"]}
        \cup {[i \in 0 .. (n - 1) |-> IF i = j THEN r ELSE "ok"] :
                 j \in 0 .. (n - 1), r \in WriteResponses \ {"ok"}}

\* the reads of one FIFO integration that may go wrong, and how
FifoFaultReads == {0, 1, ADXL_AVG_SAMPLES - 1}
FifoFaults == {[kind |-> "bsyStuck", at |-> 0], [kind |-> "rxneStuck", at |-> 0],
               [kind |-> "rxneStuck", at |-> ADXL_NB_DATA_REGISTERS]}
ReadScripts ==
    {[i \in 0 .. (ADXL_AVG_SAMPLES - 1) |-> ReadOk]}
        \cup {[i \in 0 .. (ADXL_AVG_SAMPLES - 1) |-> IF i = j THEN r ELSE ReadOk] :
                 j \in FifoFaultReads, r \in FifoFaults}

\* the FIFO holds ADXL_AVG_SAMPLES times the same sample
SampleStream(sample) == [i \in 0 .. (ADXL_AVG_SAMPLES - 1) |-> SampleBytes(sample)]
Sample(x, y, z) == [axis \in Axes |-> IF axis = X_AXIS THEN x
                                      ELSE IF axis = Y_AXIS THEN y ELSE z]

\* a sample at rest, a sample deflected by the self-test inside the three
\* windows, and the deflected sample with one axis on or just outside a bound
RestSample == Sample(0, 0, 0)
DeflectedSample == Sample(500, -500, 700)
BoundSamples ==
    {[DeflectedSample EXCEPT ![axis] = v] :
        axis \in Axes,
        v \in {ST_MAXDELTAS[X_AXIS][1] - 1, ST_MAXDELTAS[X_AXIS][1],
               ST_MAXDELTAS[X_AXIS][2], ST_MAXDELTAS[X_AXIS][2] + 1,
               ST_MAXDELTAS[Y_AXIS][1] - 1, ST_MAXDELTAS[Y_AXIS][1],
               ST_MAXDELTAS[Y_AXIS][2], ST_MAXDELTAS[Y_AXIS][2] + 1,
               ST_MAXDELTAS[Z_AXIS][1] - 1, ST_MAXDELTAS[Z_AXIS][1],
               ST_MAXDELTAS[Z_AXIS][2], ST_MAXDELTAS[Z_AXIS][2] + 1}}
SelfTestSamples == {RestSample, DeflectedSample}
                     \cup {s \in BoundSamples :
                             \E axis \in Axes :
                                /\ s[axis] # DeflectedSample[axis]
                                /\ s[axis] \in {ST_MAXDELTAS[axis][1] - 1, ST_MAXDELTAS[axis][1],
                                                ST_MAXDELTAS[axis][2], ST_MAXDELTAS[axis][2] + 1}}
ApiSamples == {RestSample, DeflectedSample}

\* FIFO contents that are not 32 times the same sample : the first
\* FifoSplits samples are one measurement, the others another one, with
\* measurements at the ends of the 16-bit range, either side of zero and
\* either side of a byte boundary
FifoSamples == {RestSample, DeflectedSample, Sample(1, -1, 255),
                Sample(-1, 256, -256), Sample(32767, -32768, -255),
                Sample(-33, 31, -32768)}
FifoSplits == {1, ADXL_AVG_SAMPLES \div 2, ADXL_AVG_SAMPLES - 1}
FifoStreams ==
    {[i \in 0 .. (ADXL_AVG_SAMPLES - 1) |-> IF i < split THEN first ELSE rest] :
        first \in FifoSamples, rest \in FifoSamples, split \in FifoSplits}

\* the bytes the data registers give for each sample of the FIFO
FifoBytes(fifo) == [i \in DOMAIN fifo |-> SampleBytes(fifo[i])]

\* bytes the identity register may answer
DeviceIDs == {ADXL_DEVICE_ID, 0}

-----------------------------------------------------------------------------
(* ADXL345.c : entry points                                                *)

\* the registers ADXL345update() writes, and what one holds before its first
\* write
WrittenRegisters == {DATA_FORMAT, BANDWIDTH_POWERMODE, FIFO_CONTROL, POWER_CONTROL,
                     INTERRUPT_ENABLE}
RegisterAtReset == {"RESET"}

\* the registers once the writes of a call are over : a register takes the
\* value of a write whose value byte went out on the bus
RECURSIVE LatestWrites(_, _)
LatestWrites(registers, written) ==
    IF written = <<>>
    THEN registers
    ELSE LatestWrites(IF Len(Head(written).tx) = 2
                      THEN [registers EXCEPT ![Head(written).register] = Head(written).value]
                      ELSE registers,
                      Tail(written))

\* the call leaves `out`; the display driver is not touched
AdxlReturn(outcome) ==
    \E out \in {outcome} :
        /\ adxl_state' = out.state
        /\ adxlTimer_ms' = out.timer
        /\ adxlSPITimer_ms' = out.spiTimer
        /\ adxl_result' = out.result
        /\ adxl_measurementsUpdated' = out.updated
        /\ adxl_latestValues' = out.latest
        /\ adxl_spiEnabled' = FALSE
        /\ adxl_ret' = out.ret
        /\ adxl_written' = out.written
        /\ adxl_reads' = out.reads
        /\ adxl_STdeltas' = out.deltas
        /\ adxl_registers' = LatestWrites(adxl_registers, out.written)
        /\ adxl_deviceID' = out.deviceID
        /\ lastCall' = "ADXL345update"
        /\ prevState' = adxl_state
        /\ UNCHANGED <<bus, adxl_previousValues, adxl_zeroValues, adxl_hasChangedRet,
                       adxl_hasChangedAxis, adxl_fifo, ssdVars>>

ADXL345update(Samples) ==
    \/ /\ adxl_state = "stStartup"
       /\ \E resp \in ReadResponses(1), deviceID \in DeviceIDs :
             AdxlReturn(ADXL_stStartup(resp, deviceID))
    \/ /\ adxl_state = "stConfiguring"
       /\ \E script \in WriteScripts(NB_REG_INIT) :
             AdxlReturn(ADXL_stConfiguring(script))
    \/ /\ adxl_state = "stMeasuringST_OFF"
       /\ \E watermark \in BOOLEAN, reads \in ReadScripts, sample \in Samples,
             writes \in WriteScripts(2) :
             AdxlReturn(ADXL_stMeasuringST_OFF(watermark, reads, SampleStream(sample), writes))
    \/ /\ adxl_state = "stWaitingForSTenabled"
       /\ \E writes \in WriteScripts(1) :
             AdxlReturn(ADXL_stWaitingForSTenabled(writes))
    \/ /\ adxl_state = "stMeasuringST_ON"
       /\ \E watermark \in BOOLEAN, reads \in ReadScripts, sample \in Samples,
             writes \in WriteScripts(1) :
             AdxlReturn(ADXL_stMeasuringST_ON(watermark, reads, SampleStream(sample), writes))
    \/ /\ adxl_state = "stMeasuring"
       /\ \E watermark \in BOOLEAN, reads \in ReadScripts, sample \in Samples :
             AdxlReturn(ADXL_stMeasuring(watermark, reads, SampleStream(sample)))
    \/ /\ adxl_state = "stError"
       /\ AdxlReturn(ADXL_stError)

\* ADXL345update() in Measuring, the FIFO holding adxl_fifo
MeasureFIFO ==
    /\ adxl_state = "stMeasuring"
    /\ \E watermark \in BOOLEAN, reads \in ReadScripts :
          AdxlReturn(ADXL_stMeasuring(watermark, reads, FifoBytes(adxl_fifo)))

ADXL345initialise ==
    /\ adxl_spiEnabled' = FALSE
    /\ adxl_latestValues' = ZeroValues
    /\ adxl_previousValues' = ZeroValues
    /\ adxl_zeroValues' = ZeroValues
    /\ lastCall' = "ADXL345initialise"
    /\ prevState' = adxl_state
    /\ UNCHANGED <<bus, adxl_state, adxlTimer_ms, adxlSPITimer_ms, adxl_result,
                   adxl_measurementsUpdated, adxl_ret, adxl_hasChangedRet,
                   adxl_hasChangedAxis, adxl_fifo, adxl_registers, adxl_deviceID,
                   adxl_written, adxl_reads,
                   adxl_STdeltas, ssdVars>>

\* ADXL345hasChanged() refreshing the baseline of every axis
ADXL345hasChanged_AllAxes(axis) ==
    /\ adxl_hasChangedRet' = (adxl_latestValues[axis] # adxl_previousValues[axis])
    /\ adxl_hasChangedAxis' = axis
    /\ adxl_previousValues' = adxl_latestValues
    /\ lastCall' = "ADXL345hasChanged"
    /\ prevState' = adxl_state
    /\ UNCHANGED <<bus, adxl_state, adxlTimer_ms, adxlSPITimer_ms, adxl_result,
                   adxl_measurementsUpdated, adxl_latestValues, adxl_zeroValues,
                   adxl_spiEnabled, adxl_ret, adxl_written, adxl_reads,
                   adxl_STdeltas, adxl_fifo, adxl_registers, adxl_deviceID, ssdVars>>

ADXL345hasChanged(axis) ==
    /\ adxl_hasChangedRet' = (adxl_latestValues[axis] # adxl_previousValues[axis])
    /\ adxl_hasChangedAxis' = axis
    /\ adxl_previousValues' = [adxl_previousValues EXCEPT ![axis] = adxl_latestValues[axis]]
    /\ lastCall' = "ADXL345hasChanged"
    /\ prevState' = adxl_state
    /\ UNCHANGED <<bus, adxl_state, adxlTimer_ms, adxlSPITimer_ms, adxl_result,
                   adxl_measurementsUpdated, adxl_latestValues, adxl_zeroValues,
                   adxl_spiEnabled, adxl_ret, adxl_written, adxl_reads,
                   adxl_STdeltas, adxl_fifo, adxl_registers, adxl_deviceID, ssdVars>>

\* reads _latestValues and _zeroValues, writes nothing
getAngleDegreesTenths(axis) ==
    /\ lastCall' = "getAngleDegreesTenths"
    /\ prevState' = adxl_state
    /\ UNCHANGED <<bus, adxlVars, ssdVars>>

\* ADXLzeroDown() compensating the three axes
ADXLzeroDown_AllAxes ==
    /\ adxl_zeroValues' = [axis \in Axes |-> -adxl_latestValues[axis]]
    /\ lastCall' = "ADXLzeroDown"
    /\ prevState' = adxl_state
    /\ UNCHANGED <<bus, adxl_state, adxlTimer_ms, adxlSPITimer_ms, adxl_result,
                   adxl_measurementsUpdated, adxl_latestValues, adxl_previousValues,
                   adxl_spiEnabled, adxl_ret, adxl_hasChangedRet, adxl_hasChangedAxis,
                   adxl_fifo, adxl_registers, adxl_deviceID,
                   adxl_written, adxl_reads, adxl_STdeltas, ssdVars>>

ADXLzeroDown ==
    /\ adxl_zeroValues' = [adxl_zeroValues EXCEPT ![X_AXIS] = -adxl_latestValues[X_AXIS],
                                                  ![Y_AXIS] = -adxl_latestValues[Y_AXIS]]
    /\ lastCall' = "ADXLzeroDown"
    /\ prevState' = adxl_state
    /\ UNCHANGED <<bus, adxl_state, adxlTimer_ms, adxlSPITimer_ms, adxl_result,
                   adxl_measurementsUpdated, adxl_latestValues, adxl_previousValues,
                   adxl_spiEnabled, adxl_ret, adxl_hasChangedRet, adxl_hasChangedAxis,
                   adxl_fifo, adxl_registers, adxl_deviceID,
                   adxl_written, adxl_reads, adxl_STdeltas, ssdVars>>

ADXLcancelZeroing ==
    /\ adxl_zeroValues' = ZeroValues
    /\ lastCall' = "ADXLcancelZeroing"
    /\ prevState' = adxl_state
    /\ UNCHANGED <<bus, adxl_state, adxlTimer_ms, adxlSPITimer_ms, adxl_result,
                   adxl_measurementsUpdated, adxl_latestValues, adxl_previousValues,
                   adxl_spiEnabled, adxl_ret, adxl_hasChangedRet, adxl_hasChangedAxis,
                   adxl_fifo, adxl_registers, adxl_deviceID,
                   adxl_written, adxl_reads, adxl_STdeltas, ssdVars>>

-----------------------------------------------------------------------------
(* The tick source (section 6 of the specification) : every timer goes     *)
(* down by one per millisecond and stops at zero.  The drivers only test   *)
(* a timer against zero, so a step of the model lets as many milliseconds  *)
(* pass as it takes the outer timer to reach the next value of a grid.     *)

AdxlTimerGrid == {0, ST_WAIT_MS - SPI_TIMEOUT_MS, INT_TIMEOUT_MS - SPI_TIMEOUT_MS}

Lapses(timer, Grid) ==
    IF timer = 0 THEN {SPI_TIMEOUT_MS}
    ELSE {timer - g : g \in {v \in Grid : v < timer}}

TickADXL ==
    /\ adxlTimer_ms > 0 \/ adxlSPITimer_ms > 0
    /\ \E d \in Lapses(adxlTimer_ms, AdxlTimerGrid) :
          /\ adxlTimer_ms' = Decr(adxlTimer_ms, d)
          /\ adxlSPITimer_ms' = Decr(adxlSPITimer_ms, d)
    /\ lastCall' = "tick"
    /\ UNCHANGED <<bus, adxl_state, adxl_result, adxl_measurementsUpdated, adxl_latestValues,
                   adxl_previousValues, adxl_zeroValues, adxl_spiEnabled, adxl_ret,
                   adxl_hasChangedRet, adxl_hasChangedAxis,
                   adxl_fifo, adxl_registers, adxl_deviceID,
                   adxl_written, adxl_reads, adxl_STdeltas,
                   ssdVars, prevState>>

-----------------------------------------------------------------------------
(* SSD1306.c : constants                                                   *)

MAX_DATA_SIZE == 1024
ANGLE_NB_CHARS == 6
SSD_LAST_COLUMN == 127
SSD_LAST_PAGE == 31
MAX_PARAMETERS == 6
NB_INIT_REGISERS == 8
ANGLE_COLUMN == 40
ANGLE_ROLL_PAGE == 1
ANGLE_PITCH_PAGE == 5
MIN_ANGLE_DEG_TENTHS == -900
MAX_ANGLE_DEG_TENTHS == 900

\* numbersVerdana16.h and icons.h : glyph and icon geometry
VERDANA_CHAR_WIDTH == 14
VERDANA_NB_PAGES == 2
VERDANA_NB_BYTES_CHAR == VERDANA_CHAR_WIDTH * VERDANA_NB_PAGES
INDEX_PLUS == 10
INDEX_MINUS == 11
INDEX_DOT == 12
INDEX_DEG == 13
REFERENCETYPE_NB_BYTES == 16

REFTYPE_PAGE == SSD_LAST_PAGE
REFTYPE_COLUMN == SSD_LAST_COLUMN - REFERENCETYPE_NB_BYTES

-----------------------------------------------------------------------------
(* SSD1306.c : command transaction                                         *)

\* Answers of the bus to a command : kind "txeStuck" means that the TXE wait
\* before parameter number `at` (0-based) never completes.
CmdOk == [kind |-> "ok", at |-> 0]
CmdResponses == {CmdOk, [kind |-> "bsyStuck", at |-> 0],
                 [kind |-> "txeStuck", at |-> 0], [kind |-> "txeStuck", at |-> 1]}

sendCommand(regNumber, parameters, nbParameters, resp) ==
    IF nbParameters > MAX_PARAMETERS
    THEN [result |-> createErrorCode("SEND_CMD", 1, "warning"),
          armed |-> FALSE, tx |-> <<>>, spiTimer |-> 0, elapsed |-> 0]
    ELSE LET stuckAt  == IF resp.kind = "txeStuck" /\ resp.at < nbParameters
                         THEN resp.at ELSE nbParameters
             afterTXE == IF stuckAt < nbParameters THEN 0 ELSE SPI_TIMEOUT_MS
             afterBSY == IF afterTXE # 0 /\ resp.kind = "bsyStuck" THEN 0 ELSE afterTXE
         IN  [result   |-> IF afterBSY = 0
                           THEN createErrorCode("SEND_CMD", 2, "warning")
                           ELSE ERR_SUCCESS,
              armed    |-> TRUE,
              tx       |-> <<regNumber>> \o SubSeq(parameters, 1, stuckAt),
              spiTimer |-> afterBSY,
              elapsed  |-> SPI_TIMEOUT_MS - afterBSY]

-----------------------------------------------------------------------------
(* SSD1306.c : buffer preparation.  Each yields what the call stages.      *)

Staging(columns, pages, size, buffer) ==
    [limitColumns |-> columns, limitPages |-> pages, size |-> size, buffer |-> buffer]

drawBaseScreen ==
    Staging(<<0, SSD_LAST_COLUMN>>, <<0, SSD_LAST_PAGE>>, MAX_DATA_SIZE,
            [image |-> "baseScreen", glyphs |-> <<>>])

\* the value an int16_t holds after angleTenths = -angleTenths
Negated16(v) == IF v = -32768 THEN -32768 ELSE -v

\* SSD1306_printAngleTenths() taking the sign and the absolute value before
\* it clamps
printAngleTenths_ClampingLast(angleTenths, rotationAxis) ==
    LET sign     == IF angleTenths < 0 THEN INDEX_MINUS ELSE INDEX_PLUS
        absolute == IF angleTenths < 0 THEN Negated16(angleTenths) ELSE angleTenths
        low      == IF absolute < MIN_ANGLE_DEG_TENTHS
                    THEN MIN_ANGLE_DEG_TENTHS ELSE absolute
        clamped  == IF low > MAX_ANGLE_DEG_TENTHS THEN MAX_ANGLE_DEG_TENTHS ELSE low
        page     == IF rotationAxis = "ROLL" THEN ANGLE_ROLL_PAGE ELSE ANGLE_PITCH_PAGE
    IN  Staging(<<ANGLE_COLUMN,
                  (ANGLE_COLUMN + (VERDANA_CHAR_WIDTH * ANGLE_NB_CHARS) - 1) % 256>>,
                <<page, page + 1>>,
                ANGLE_NB_CHARS * VERDANA_NB_BYTES_CHAR,
                [image  |-> "angle",
                 glyphs |-> <<sign, (clamped \div 100) % 256,
                              ((clamped \div 10) % 10) % 256, INDEX_DOT,
                              (clamped % 10) % 256, INDEX_DEG>>])

printAngleTenths(angleTenths, rotationAxis) ==
    LET low      == IF angleTenths < MIN_ANGLE_DEG_TENTHS
                    THEN MIN_ANGLE_DEG_TENTHS ELSE angleTenths
        clamped  == IF low > MAX_ANGLE_DEG_TENTHS THEN MAX_ANGLE_DEG_TENTHS ELSE low
        sign     == IF clamped < 0 THEN INDEX_MINUS ELSE INDEX_PLUS
        absolute == IF clamped < 0 THEN Negated16(clamped) ELSE clamped
        page     == IF rotationAxis = "ROLL" THEN ANGLE_ROLL_PAGE ELSE ANGLE_PITCH_PAGE
    IN  Staging(<<ANGLE_COLUMN,
                  (ANGLE_COLUMN + (VERDANA_CHAR_WIDTH * ANGLE_NB_CHARS) - 1) % 256>>,
                <<page, page + 1>>,
                ANGLE_NB_CHARS * VERDANA_NB_BYTES_CHAR,
                [image  |-> "angle",
                 glyphs |-> <<sign, (absolute \div 100) % 256,
                              ((absolute \div 10) % 10) % 256, INDEX_DOT,
                              (absolute % 10) % 256, INDEX_DEG>>])

printReferentialIcon(type) ==
    Staging(<<REFTYPE_COLUMN, (REFTYPE_COLUMN + REFERENCETYPE_NB_BYTES) % 256>>,
            <<REFTYPE_PAGE, REFTYPE_PAGE>>,
            REFERENCETYPE_NB_BYTES,
            [image  |-> IF type = "ABSOLUTE" THEN "absoluteReferentialIcon"
                                             ELSE "relativeReferentialIcon",
             glyphs |-> <<>>])

printHoldIcon(status) ==
    Staging(<<(REFTYPE_COLUMN - REFERENCETYPE_NB_BYTES) % 256, REFTYPE_COLUMN>>,
            <<REFTYPE_PAGE, REFTYPE_PAGE>>,
            REFERENCETYPE_NB_BYTES,
            [image |-> IF status # 0 THEN "holdIcon" ELSE "blank", glyphs |-> <<>>])

\* isScreenReady() answering for every state but SendingData
isScreenReady_NotSending == ssd_state # "stSendingData"

isScreenReady == ssd_state = "stIdle"

-----------------------------------------------------------------------------
(* SSD1306.c : state functions.  Each yields the values the call leaves.   *)

SsdEntry ==
    [state        |-> ssd_state,
     ret          |-> ERR_SUCCESS,
     timer        |-> screenTimer_ms,
     spiTimer     |-> ssd1306SPITimer_ms,
     limitColumns |-> ssd_limitColumns,
     limitPages   |-> ssd_limitPages,
     size         |-> ssd_size,
     buffer       |-> ssd_screenBuffer,
     staged       |-> ssd_staged,
     spiEnabled   |-> ssd_spiEnabled,
     dcPin        |-> ssd_dcPin,
     dmaEnabled   |-> dmaChannelEnabled,
     dmaLength    |-> dmaDataLength,
     dmaRequest   |-> dmaRequestTX,
     dmaTC        |-> dmaTC,
     dmaTE        |-> dmaTE,
     sent         |-> <<>>,
     resets       |-> 0]

\* one command sent by a state function, recorded in the outcome
AfterCommand(out, regNumber, parameters, nbParameters, resp) ==
    LET c == sendCommand(regNumber, parameters, nbParameters, resp)
    IN  [out EXCEPT !.ret        = c.result,
                    !.spiTimer   = IF c.armed THEN c.spiTimer ELSE @,
                    !.timer      = Decr(@, c.elapsed),
                    !.dcPin      = IF c.armed THEN "COMMAND" ELSE @,
                    !.spiEnabled = IF c.armed THEN FALSE ELSE @,
                    !.sent       = Append(@, [register |-> regNumber,
                                              parameters |-> SubSeq(parameters, 1, nbParameters),
                                              tx |-> c.tx,
                                              ok |-> ~isError(c.result)])]

\* (variant) a transfer in flight is left alone : the state is not forced
Stage_KeepingTransfer(out, staging, call) ==
    [out EXCEPT !.limitColumns = staging.limitColumns,
                !.limitPages   = staging.limitPages,
                !.size         = staging.size,
                !.buffer       = staging.buffer,
                !.staged       = call,
                !.state        = IF @ = "stWaitingForTXdone" THEN @ ELSE "stSendingData"]

\* what a buffer-preparation call leaves, made from `out`
Stage(out, staging, call) ==
    [out EXCEPT !.limitColumns = staging.limitColumns,
                !.limitPages   = staging.limitPages,
                !.size         = staging.size,
                !.buffer       = staging.buffer,
                !.staged       = call,
                !.state        = "stSendingData"]

\* initCommands[] with the display switched on before the charge pump
initCommands_DisplayOnEarly ==
    <<<<"SCAN_DIRECTION_N1_0", 0, {}>>,
      <<"HARDWARE_CONFIG",     1, {"SSD_PIN_CONFIG_ALT", "SSD_COM_REMAP_DISABLE"}>>,
      <<"SEGMENT_REMAP_127",   0, {}>>,
      <<"MEMORY_ADDR_MODE",    1, {"SSD_HORIZONTAL_ADDR"}>>,
      <<"CONTRAST_CONTROL",    1, {"SSD_CONTRAST_HIGHEST"}>>,
      <<"CLOCK_DIVIDE_RATIO",  1, {"SSD_CLOCK_FREQ_MID", "SSD_CLOCK_DIVIDER_1"}>>,
      <<"DISPLAY_ON",          0, {}>>,
      <<"CHG_PUMP_REGULATOR",  1, {"SSD_ENABLE_CHG_PUMP"}>>>>

initCommands ==
    <<<<"SCAN_DIRECTION_N1_0", 0, {}>>,
      <<"HARDWARE_CONFIG",     1, {"SSD_PIN_CONFIG_ALT", "SSD_COM_REMAP_DISABLE"}>>,
      <<"SEGMENT_REMAP_127",   0, {}>>,
      <<"MEMORY_ADDR_MODE",    1, {"SSD_HORIZONTAL_ADDR"}>>,
      <<"CONTRAST_CONTROL",    1, {"SSD_CONTRAST_HIGHEST"}>>,
      <<"CLOCK_DIVIDE_RATIO",  1, {"SSD_CLOCK_FREQ_MID", "SSD_CLOCK_DIVIDER_1"}>>,
      <<"CHG_PUMP_REGULATOR",  1, {"SSD_ENABLE_CHG_PUMP"}>>,
      <<"DISPLAY_ON",          0, {}>>>>

\* the command loop of stConfiguring, from entry i (0-based) on
RECURSIVE ssdConfiguringLoop(_, _, _)
ssdConfiguringLoop(i, out, script) ==
    IF i >= NB_INIT_REGISERS
    THEN out
    ELSE LET c == AfterCommand(out, initCommands[i + 1][1], <<initCommands[i + 1][3]>>,
                               initCommands[i + 1][2], script[i])
         IN  IF isError(c.ret)
             THEN [c EXCEPT !.ret = pushErrorCode(c.ret, "INIT", 1)]
             ELSE ssdConfiguringLoop(i + 1, c, script)

SSD_stConfiguring(script) ==
    LET out == ssdConfiguringLoop(0, [SsdEntry EXCEPT !.resets = 1], script)
    IN  IF isError(out.ret)
        THEN out
        ELSE [Stage(out, drawBaseScreen, [call |-> "SSD1306drawBaseScreen", argument |-> "NONE"])
                 EXCEPT !.ret = ERR_SUCCESS]

SSD_stIdle == SsdEntry

\* (variant) the length of the previous transfer is kept
SSD_stSendingData_StaleLength(script) ==
    LET columns == AfterCommand(SsdEntry, "COLUMN_ADDRESS", ssd_limitColumns, 2, script[0])
    IN  IF isError(columns.ret)
        THEN [columns EXCEPT !.state = "stIdle",
                             !.ret = pushErrorCode(columns.ret, "SENDING_DATA", 1)]
        ELSE LET pages == AfterCommand(columns, "PAGE_ADDRESS", ssd_limitPages, 2, script[1])
             IN  IF isError(pages.ret)
                 THEN [pages EXCEPT !.state = "stIdle",
                                    !.ret = pushErrorCode(pages.ret, "SENDING_DATA", 2)]
                 ELSE [pages EXCEPT !.dcPin      = "DATA",
                                    !.spiEnabled = TRUE,
                                    !.dmaTC      = FALSE,
                                    !.dmaTE      = FALSE,
                                    !.dmaEnabled = TRUE,
                                    !.timer      = SPI_TIMEOUT_MS,
                                    !.dmaRequest = TRUE,
                                    !.state      = "stWaitingForTXdone",
                                    !.ret        = ERR_SUCCESS]

\* stSendingData() starting the transfer whatever the page-address command
\* returned
SSD_stSendingData_IgnoringPages(script) ==
    LET columns == AfterCommand(SsdEntry, "COLUMN_ADDRESS", ssd_limitColumns, 2, script[0])
    IN  IF isError(columns.ret)
        THEN [columns EXCEPT !.state = "stIdle",
                             !.ret = pushErrorCode(columns.ret, "SENDING_DATA", 1)]
        ELSE LET pages == AfterCommand(columns, "PAGE_ADDRESS", ssd_limitPages, 2, script[1])
             IN  [pages EXCEPT !.dcPin      = "DATA",
                               !.spiEnabled = TRUE,
                               !.dmaTC      = FALSE,
                               !.dmaTE      = FALSE,
                               !.dmaLength  = ssd_size,
                               !.dmaEnabled = TRUE,
                               !.timer      = SPI_TIMEOUT_MS,
                               !.dmaRequest = TRUE,
                               !.state      = "stWaitingForTXdone",
                               !.ret        = ERR_SUCCESS]

SSD_stSendingData(script) ==
    LET columns == AfterCommand(SsdEntry, "COLUMN_ADDRESS", ssd_limitColumns, 2, script[0])
    IN  IF isError(columns.ret)
        THEN [columns EXCEPT !.state = "stIdle",
                             !.ret = pushErrorCode(columns.ret, "SENDING_DATA", 1)]
        ELSE LET pages == AfterCommand(columns, "PAGE_ADDRESS", ssd_limitPages, 2, script[1])
             IN  IF isError(pages.ret)
                 THEN [pages EXCEPT !.state = "stIdle",
                                    !.ret = pushErrorCode(pages.ret, "SENDING_DATA", 2)]
                 ELSE [pages EXCEPT !.dcPin      = "DATA",
                                    !.spiEnabled = TRUE,
                                    !.dmaTC      = FALSE,
                                    !.dmaTE      = FALSE,
                                    !.dmaLength  = ssd_size,
                                    !.dmaEnabled = TRUE,
                                    !.timer      = SPI_TIMEOUT_MS,
                                    !.dmaRequest = TRUE,
                                    !.state      = "stWaitingForTXdone",
                                    !.ret        = ERR_SUCCESS]

\* the statements after the label finalise
Finalise(out, result) ==
    [out EXCEPT !.dmaEnabled = FALSE,
                !.spiEnabled = FALSE,
                !.state      = "stIdle",
                !.ret        = result]

\* (variant) the DMA error flag is not looked at
SSD_stWaitingForTXdone_NoErrorFlag ==
    IF screenTimer_ms = 0
    THEN Finalise(SsdEntry, createErrorCode("WAITING_DMA_RDY", 1, "error"))
    ELSE IF ~dmaTC
    THEN SsdEntry
    ELSE Finalise(SsdEntry, ERR_SUCCESS)

\* (variant) the outer timer is not looked at
SSD_stWaitingForTXdone_NoTimeout ==
    IF dmaTE
    THEN Finalise(SsdEntry, createErrorCode("WAITING_DMA_RDY", 2, "error"))
    ELSE IF ~dmaTC
    THEN SsdEntry
    ELSE Finalise(SsdEntry, ERR_SUCCESS)

SSD_stWaitingForTXdone ==
    IF screenTimer_ms = 0
    THEN Finalise(SsdEntry, createErrorCode("WAITING_DMA_RDY", 1, "error"))
    ELSE IF dmaTE
    THEN Finalise(SsdEntry, createErrorCode("WAITING_DMA_RDY", 2, "error"))
    ELSE IF ~dmaTC
    THEN SsdEntry
    ELSE Finalise(SsdEntry, ERR_SUCCESS)

-----------------------------------------------------------------------------
(* SSD1306.c : inputs of the calls and entry points                        *)

\* bus answers to n consecutive commands : all good, or one of them stuck
CmdScripts(n) ==
    {[i \in 0 .. (n - 1) |-> CmdOk]}
        \cup {[i \in 0 .. (n - 1) |-> IF i = j THEN r ELSE CmdOk] :
                 j \in 0 .. (n - 1), r \in CmdResponses \ {CmdOk}}

\* angles handed to SSD1306_printAngleTenths
AngleInputs == {-32768, -901, -900, -123, -1, 0, 7, 450, 900, 901, 32767}

\* every value of the int16_t parameter angleTenths
Int16 == -32768 .. 32767

\* the call leaves `out`; the accelerometer driver is not touched
SsdReturn(outcome, call) ==
    \E out \in {outcome} :
        /\ ssd_state' = out.state
        /\ screenTimer_ms' = out.timer
        /\ ssd1306SPITimer_ms' = out.spiTimer
        /\ ssd_limitColumns' = out.limitColumns
        /\ ssd_limitPages' = out.limitPages
        /\ ssd_size' = out.size
        /\ ssd_screenBuffer' = out.buffer
        /\ ssd_spiEnabled' = out.spiEnabled
        /\ ssd_dcPin' = out.dcPin
        /\ dmaChannelEnabled' = out.dmaEnabled
        /\ dmaDataLength' = out.dmaLength
        /\ dmaRequestTX' = out.dmaRequest
        /\ dmaTC' = out.dmaTC
        /\ dmaTE' = out.dmaTE
        /\ ssd_ret' = out.ret
        /\ ssd_sent' = out.sent
        /\ ssd_resets' = out.resets
        /\ ssd_staged' = out.staged
        /\ lastCall' = call
        /\ prevState' = ssd_state
        /\ UNCHANGED <<bus, adxlVars>>

SSD1306update ==
    \/ /\ ssd_state = "stConfiguring"
       /\ \E script \in CmdScripts(NB_INIT_REGISERS) :
             SsdReturn(SSD_stConfiguring(script), "SSD1306update")
    \/ /\ ssd_state = "stIdle"
       /\ SsdReturn(SSD_stIdle, "SSD1306update")
    \/ /\ ssd_state = "stSendingData"
       /\ \E script \in CmdScripts(2) :
             SsdReturn(SSD_stSendingData(script), "SSD1306update")
    \/ /\ ssd_state = "stWaitingForTXdone"
       /\ SsdReturn(SSD_stWaitingForTXdone, "SSD1306update")

\* a buffer-preparation call keeps what the last update returned and sent
Prepared(staging, call) ==
    SsdReturn([Stage(SsdEntry, staging, call) EXCEPT !.ret = ssd_ret,
                                                     !.sent = ssd_sent,
                                                     !.resets = ssd_resets],
              call.call)

SSD1306drawBaseScreen ==
    Prepared(drawBaseScreen, [call |-> "SSD1306drawBaseScreen", argument |-> "NONE"])

\* SSD1306_printAngleTenths() called with an angle of a given set
SSD1306_printAngleTenthsOf(angles) ==
    \E angleTenths \in angles, rotationAxis \in {"ROLL", "PITCH"} :
        Prepared(printAngleTenths(angleTenths, rotationAxis),
                 [call |-> "SSD1306_printAngleTenths", argument |-> rotationAxis,
                  angle |-> angleTenths])

SSD1306_printAngleTenths == SSD1306_printAngleTenthsOf(AngleInputs)

SSD1306_printReferentialIcon ==
    \E type \in {"ABSOLUTE", "RELATIVE"} :
        Prepared(printReferentialIcon(type),
                 [call |-> "SSD1306_printReferentialIcon", argument |-> type])

SSD1306_printHoldIcon ==
    \E status \in {0, 1} :
        Prepared(printHoldIcon(status),
                 [call |-> "SSD1306_printHoldIcon",
                  argument |-> IF status # 0 THEN "HOLD" ELSE "ERASE"])

\* the DMA controller ends the transfer it was handed : complete, or in error
DMAtransferEnds ==
    /\ dmaChannelEnabled
    /\ dmaRequestTX
    /\ ~dmaTC
    /\ ~dmaTE
    /\ \/ dmaTC' = TRUE /\ dmaTE' = FALSE
       \/ dmaTC' = FALSE /\ dmaTE' = TRUE
       \/ dmaTC' = TRUE /\ dmaTE' = TRUE
    /\ lastCall' = "DMA"
    /\ UNCHANGED <<bus, adxlVars, ssd_state, screenTimer_ms, ssd1306SPITimer_ms,
                   ssd_limitColumns, ssd_limitPages, ssd_size, ssd_screenBuffer,
                   ssd_spiEnabled, ssd_dcPin, dmaChannelEnabled, dmaDataLength,
                   dmaRequestTX, ssd_ret, ssd_sent, ssd_resets, ssd_staged, prevState>>

SsdTimerGrid == {0, SPI_TIMEOUT_MS \div 2}

TickSSD ==
    /\ screenTimer_ms > 0 \/ ssd1306SPITimer_ms > 0
    /\ \E d \in Lapses(screenTimer_ms, SsdTimerGrid) :
          /\ screenTimer_ms' = Decr(screenTimer_ms, d)
          /\ ssd1306SPITimer_ms' = Decr(ssd1306SPITimer_ms, d)
    /\ lastCall' = "tick"
    /\ UNCHANGED <<bus, adxlVars, ssd_state, ssd_limitColumns, ssd_limitPages, ssd_size,
                   ssd_screenBuffer, ssd_spiEnabled, ssd_dcPin, dmaChannelEnabled,
                   dmaDataLength, dmaRequestTX, dmaTC, dmaTE, ssd_ret, ssd_sent,
                   ssd_resets, ssd_staged, prevState>>

-----------------------------------------------------------------------------
(* The bus transactions, statement by statement.  A step is a statement    *)
(* that reads the transaction timer or a flag of the bus; the tick source  *)
(* may run between two steps.  `bus` holds the function in progress, its   *)
(* position, its parameters and locals, how the flags of the bus behave    *)
(* (resp : the wait number `at` for TXE or RXNE never sees its flag, or    *)
(* BSY never clears) and what the call did : waits made, bytes handed to   *)
(* the bus (tx), whether the timer was armed and the bus enabled.          *)

BusIdle ==
    [fn |-> "none", pc |-> "idle", register |-> 0, size |-> 0, left |-> 0,
     resp |-> [kind |-> "ok", at |-> 0], waits |-> 0, tx |-> 0, armed |-> FALSE,
     result |-> ERR_SUCCESS]

BusEntry(fn, register, size, resp) ==
    [BusIdle EXCEPT !.fn = fn, !.pc = "entry", !.register = register,
                    !.size = size, !.left = size, !.resp = resp]

\* the transaction timer of the function in progress
BusTimer ==
    IF bus.fn = "sendCommand" THEN ssd1306SPITimer_ms ELSE adxlSPITimer_ms

\* (variant) the reserved range is not looked at
writeRegisterOutOfRange_AboveOnly(registerNumber) ==
    registerNumber > ADXL_REGISTER_MAXNB

\* the register number is above the known ones or within the reserved range
writeRegisterOutOfRange(registerNumber) ==
    \/ registerNumber > ADXL_REGISTER_MAXNB
    \/ ((registerNumber - 1) % 256) < ADXL_HIGH_RESERVED_REG

\* (variant) the highest register number is let through with the one after
readRegistersOutOfRange_OffByOne(firstRegister) ==
    firstRegister > ADXL_REGISTER_MAXNB + 1

\* the register number is above the known ones
readRegistersOutOfRange(firstRegister) ==
    firstRegister > ADXL_REGISTER_MAXNB

\* (variant) the wait does not look at the timer
WaitOver_FlagOnly(flag, timer) == flag

\* while(!flag && timer); is over
WaitOver(flag, timer) == flag \/ timer = 0

\* (variant) the loop does not look at the timer
LoopGoesOn_CountOnly(count, timer) == count # 0

\* while(count && timer) goes on
LoopGoesOn(count, timer) == count # 0 /\ timer # 0

\* if(!timer) return timeout ; return success
TransactionResult(origin, timer) ==
    IF timer = 0 THEN createErrorCode(origin, 2, "warning") ELSE ERR_SUCCESS

\* the flag the current wait polls : TXE or RXNE set, BSY cleared
FlagSeen(kind) == ~(bus.resp.kind = kind /\ bus.resp.at = bus.waits)
BusyCleared == bus.resp.kind # "bsyStuck"

\* a step of a transaction of the accelerometer bus
AdxlBusStep(next, timer, enabled) ==
    \E b \in {next} :
        /\ bus' = b
        /\ adxlSPITimer_ms' = timer
        /\ adxl_spiEnabled' = enabled
        /\ lastCall' = b.fn
        /\ UNCHANGED <<adxl_state, adxlTimer_ms, adxl_result, adxl_measurementsUpdated,
                       adxl_latestValues, adxl_previousValues, adxl_zeroValues,
                       adxl_ret, adxl_hasChangedRet, adxl_hasChangedAxis,
                       adxl_fifo, adxl_registers, adxl_deviceID,
                       adxl_written, adxl_reads,
                       adxl_STdeltas, ssdVars, prevState>>

\* register numbers and bus behaviours a write is called with
RegisterNumbers == 0 .. 255
BusWriteResponses == {[kind |-> k, at |-> 0] : k \in WriteResponses}

\* entry of writeRegister up to the first wait
writeRegisterCall ==
    /\ bus.pc = "idle"
    /\ \E registerNumber \in RegisterNumbers, resp \in BusWriteResponses :
          LET entry == BusEntry("writeRegister", registerNumber, 1, resp)
          IN  IF writeRegisterOutOfRange(registerNumber)
              THEN AdxlBusStep([entry EXCEPT !.pc = "done",
                                             !.result = createErrorCode("WRITE_REGISTER", 1,
                                                                        "warning")],
                               adxlSPITimer_ms, adxl_spiEnabled)
              ELSE AdxlBusStep([entry EXCEPT !.pc = "waitTXE", !.armed = TRUE, !.tx = 1],
                               SPI_TIMEOUT_MS, TRUE)

\* the statements of writeRegister from the first wait on
writeRegisterStep ==
    /\ bus.fn = "writeRegister"
    /\ \/ /\ bus.pc = "waitTXE"
          /\ WaitOver(FlagSeen("txeStuck"), adxlSPITimer_ms)
          /\ AdxlBusStep([bus EXCEPT !.pc = "sendValue", !.waits = @ + 1],
                         adxlSPITimer_ms, adxl_spiEnabled)
       \/ /\ bus.pc = "sendValue"
          /\ AdxlBusStep([bus EXCEPT !.pc = "waitBSY",
                                     !.tx = IF adxlSPITimer_ms # 0 THEN @ + 1 ELSE @,
                                     !.left = IF adxlSPITimer_ms # 0 THEN @ - 1 ELSE @],
                         adxlSPITimer_ms, adxl_spiEnabled)
       \/ /\ bus.pc = "waitBSY"
          /\ WaitOver(BusyCleared, adxlSPITimer_ms)
          /\ AdxlBusStep([bus EXCEPT !.pc = "final"], adxlSPITimer_ms, FALSE)
       \/ /\ bus.pc = "final"
          /\ AdxlBusStep([bus EXCEPT !.pc = "done",
                                     !.result = TransactionResult("WRITE_REGISTER",
                                                                  adxlSPITimer_ms)],
                         adxlSPITimer_ms, adxl_spiEnabled)

\* first registers, byte counts and bus behaviours a burst read is called with
ReadFirstRegisters ==
    {DEVICE_ID, 1, ADXL_HIGH_RESERVED_REG, ADXL_HIGH_RESERVED_REG + 1, DATA_X0,
     ADXL_REGISTER_MAXNB, ADXL_REGISTER_MAXNB + 1, 255}
BusReadSizes == {0, 1, 3}
BusReadResponses(size) ==
    {[kind |-> "ok", at |-> 0], [kind |-> "bsyStuck", at |-> 0]}
        \cup {[kind |-> "rxneStuck", at |-> k] : k \in 0 .. size}

\* entry of readRegisters up to the first wait
readRegistersCall ==
    /\ bus.pc = "idle"
    /\ \E firstRegister \in ReadFirstRegisters, size \in BusReadSizes :
       \E resp \in BusReadResponses(size) :
          LET entry == BusEntry("readRegisters", firstRegister, size, resp)
          IN  IF size = 0
              THEN AdxlBusStep([entry EXCEPT !.pc = "done", !.result = ERR_SUCCESS],
                               adxlSPITimer_ms, adxl_spiEnabled)
              ELSE IF readRegistersOutOfRange(firstRegister)
              THEN AdxlBusStep([entry EXCEPT !.pc = "done",
                                             !.result = createErrorCode("READ_REGISTERS", 1,
                                                                        "warning")],
                               adxlSPITimer_ms, adxl_spiEnabled)
              ELSE AdxlBusStep([entry EXCEPT !.pc = "waitOpcode", !.armed = TRUE, !.tx = 1],
                               SPI_TIMEOUT_MS, TRUE)

\* the statements of readRegisters from the first wait on
readRegistersStep ==
    /\ bus.fn = "readRegisters"
    /\ \/ /\ bus.pc = "waitOpcode"
          /\ WaitOver(FlagSeen("rxneStuck"), adxlSPITimer_ms)
          \* the answer to the opcode is dropped, the first filler byte is sent
          /\ AdxlBusStep([bus EXCEPT !.pc = "waitData", !.waits = @ + 1, !.tx = @ + 1],
                         adxlSPITimer_ms, adxl_spiEnabled)
       \/ /\ bus.pc = "waitData"
          /\ WaitOver(FlagSeen("rxneStuck"), adxlSPITimer_ms)
          /\ AdxlBusStep([bus EXCEPT !.pc = "loopTest", !.waits = @ + 1, !.left = @ - 1],
                         adxlSPITimer_ms, adxl_spiEnabled)
       \/ /\ bus.pc = "loopTest"
          /\ IF LoopGoesOn(bus.left, adxlSPITimer_ms)
             THEN AdxlBusStep([bus EXCEPT !.pc = "waitData", !.tx = @ + 1],
                              adxlSPITimer_ms, adxl_spiEnabled)
             ELSE AdxlBusStep([bus EXCEPT !.pc = "waitBSY"],
                              adxlSPITimer_ms, adxl_spiEnabled)
       \/ /\ bus.pc = "waitBSY"
          /\ WaitOver(BusyCleared, adxlSPITimer_ms)
          /\ AdxlBusStep([bus EXCEPT !.pc = "final"], adxlSPITimer_ms, FALSE)
       \/ /\ bus.pc = "final"
          /\ AdxlBusStep([bus EXCEPT !.pc = "done",
                                     !.result = TransactionResult("READ_REGISTERS",
                                                                  adxlSPITimer_ms)],
                         adxlSPITimer_ms, adxl_spiEnabled)

\* a step of a transaction of the display bus
SsdBusStep(next, timer, enabled, pin) ==
    \E b \in {next} :
        /\ bus' = b
        /\ ssd1306SPITimer_ms' = timer
        /\ ssd_spiEnabled' = enabled
        /\ ssd_dcPin' = pin
        /\ lastCall' = b.fn
        /\ UNCHANGED <<adxlVars, ssd_state, screenTimer_ms, ssd_limitColumns,
                       ssd_limitPages, ssd_size, ssd_screenBuffer, dmaChannelEnabled,
                       dmaDataLength, dmaRequestTX, dmaTC, dmaTE, ssd_ret, ssd_sent,
                       ssd_resets, ssd_staged, prevState>>

\* numbers of parameters and bus behaviours a command is sent with
BusCommandSizes == {0, 1, 2, MAX_PARAMETERS, MAX_PARAMETERS + 1}
BusCommandResponses(nbParameters) ==
    {[kind |-> "ok", at |-> 0], [kind |-> "bsyStuck", at |-> 0]}
        \cup {[kind |-> "txeStuck", at |-> k] : k \in 0 .. (nbParameters - 1)}

\* entry of sendCommand up to the test of the parameters loop
sendCommandCall ==
    /\ bus.pc = "idle"
    /\ \E nbParameters \in BusCommandSizes :
       \E resp \in BusCommandResponses(nbParameters) :
          LET entry == BusEntry("sendCommand", "COLUMN_ADDRESS", nbParameters, resp)
          IN  IF nbParameters > MAX_PARAMETERS
              THEN SsdBusStep([entry EXCEPT !.pc = "done",
                                            !.result = createErrorCode("SEND_CMD", 1,
                                                                       "warning")],
                              ssd1306SPITimer_ms, ssd_spiEnabled, ssd_dcPin)
              ELSE SsdBusStep([entry EXCEPT !.pc = "loopTest", !.armed = TRUE, !.tx = 1],
                              SPI_TIMEOUT_MS, TRUE, "COMMAND")

\* the statements of sendCommand from the parameters loop on
sendCommandStep ==
    /\ bus.fn = "sendCommand"
    /\ \/ /\ bus.pc = "loopTest"
          /\ SsdBusStep([bus EXCEPT !.pc = IF LoopGoesOn(bus.left, ssd1306SPITimer_ms)
                                           THEN "waitTXE" ELSE "waitBSY"],
                        ssd1306SPITimer_ms, ssd_spiEnabled, ssd_dcPin)
       \/ /\ bus.pc = "waitTXE"
          /\ WaitOver(FlagSeen("txeStuck"), ssd1306SPITimer_ms)
          /\ SsdBusStep([bus EXCEPT !.pc = "sendParameter", !.waits = @ + 1],
                        ssd1306SPITimer_ms, ssd_spiEnabled, ssd_dcPin)
       \/ /\ bus.pc = "sendParameter"
          /\ SsdBusStep([bus EXCEPT !.pc = "loopTest",
                                    !.tx = IF ssd1306SPITimer_ms # 0 THEN @ + 1 ELSE @,
                                    !.left = @ - 1],
                        ssd1306SPITimer_ms, ssd_spiEnabled, ssd_dcPin)
       \/ /\ bus.pc = "waitBSY"
          /\ WaitOver(BusyCleared, ssd1306SPITimer_ms)
          /\ SsdBusStep([bus EXCEPT !.pc = "final"], ssd1306SPITimer_ms, FALSE, ssd_dcPin)
       \/ /\ bus.pc = "final"
          /\ SsdBusStep([bus EXCEPT !.pc = "done",
                                    !.result = TransactionResult("SEND_CMD",
                                                                 ssd1306SPITimer_ms)],
                        ssd1306SPITimer_ms, ssd_spiEnabled, ssd_dcPin)

\* the function returns to its caller
BusReturn ==
    /\ bus.pc = "done"
    /\ bus' = BusIdle
    /\ lastCall' = "return"
    /\ UNCHANGED <<adxlVars, ssdVars, prevState>>

\* one tick : the tick source decrements the transaction timers, down to zero
BusTick ==
    /\ adxlSPITimer_ms > 0 \/ ssd1306SPITimer_ms > 0
    /\ adxlSPITimer_ms' = Decr(adxlSPITimer_ms, 1)
    /\ ssd1306SPITimer_ms' = Decr(ssd1306SPITimer_ms, 1)
    /\ lastCall' = "tick"
    /\ UNCHANGED <<bus, adxl_state, adxlTimer_ms, adxl_result, adxl_measurementsUpdated,
                   adxl_latestValues, adxl_previousValues, adxl_zeroValues,
                   adxl_spiEnabled, adxl_ret, adxl_hasChangedRet, adxl_hasChangedAxis,
                   adxl_fifo, adxl_registers, adxl_deviceID,
                   adxl_written,
                   adxl_reads, adxl_STdeltas, ssd_state, screenTimer_ms,
                   ssd_limitColumns, ssd_limitPages, ssd_size, ssd_screenBuffer,
                   ssd_spiEnabled, ssd_dcPin, dmaChannelEnabled, dmaDataLength,
                   dmaRequestTX, dmaTC, dmaTE, ssd_ret, ssd_sent, ssd_resets,
                   ssd_staged, prevState>>

-----------------------------------------------------------------------------
(* Specifications.  The drivers share no variable : each specification     *)
(* follows one driver, its two timers and the hardware it talks to.        *)

InitAt(state, fifo) ==
    /\ adxl_state = state
    /\ adxl_fifo = fifo
    /\ adxl_registers = [register \in WrittenRegisters |-> RegisterAtReset]
    /\ adxl_deviceID = 0
    /\ adxlTimer_ms = INT_TIMEOUT_MS
    /\ adxlSPITimer_ms = 0
    /\ adxl_result = ERR_SUCCESS
    /\ adxl_measurementsUpdated = 0
    /\ adxl_latestValues = ZeroValues
    /\ adxl_previousValues = ZeroValues
    /\ adxl_zeroValues = ZeroValues
    /\ adxl_spiEnabled = FALSE
    /\ adxl_ret = ERR_SUCCESS
    /\ adxl_hasChangedRet = FALSE
    /\ adxl_hasChangedAxis = X_AXIS
    /\ adxl_written = <<>>
    /\ adxl_reads = 0
    /\ adxl_STdeltas = <<>>
    /\ ssd_state = "stConfiguring"
    /\ screenTimer_ms = 0
    /\ ssd1306SPITimer_ms = 0
    /\ ssd_limitColumns = <<0, 0>>
    /\ ssd_limitPages = <<0, 0>>
    /\ ssd_size = 0
    /\ ssd_screenBuffer = [image |-> "blank", glyphs |-> <<>>]
    /\ ssd_spiEnabled = FALSE
    /\ ssd_dcPin = "COMMAND"
    /\ dmaChannelEnabled = FALSE
    /\ dmaDataLength = 0
    /\ dmaRequestTX = FALSE
    /\ dmaTC = FALSE
    /\ dmaTE = FALSE
    /\ ssd_ret = ERR_SUCCESS
    /\ ssd_sent = <<>>
    /\ ssd_resets = 0
    /\ ssd_staged = [call |-> "NONE", argument |-> "NONE"]
    /\ lastCall = "NONE"
    /\ prevState = "NONE"
    /\ bus = BusIdle

\* the state after construction : no sample is fixed beforehand
Init == InitAt("stStartup", <<>>)

\* the accelerometer state machine, run by the scheduler
NextADXL == ADXL345update(SelfTestSamples) \/ TickADXL
SpecADXL == Init /\ [][NextADXL]_vars

\* what the main loop does between two calls of a driver : nothing the
\* drivers see
MainLoop ==
    /\ lastCall' = "mainLoop"
    /\ UNCHANGED <<adxlVars, ssdVars, prevState, bus>>

\* the accelerometer with a main loop that goes round for ever, calling
\* ADXL345update() at every turn, and a tick source that keeps running
NextADXLlive == ADXL345update(ApiSamples) \/ TickADXL \/ MainLoop
SpecADXLlive ==
    /\ Init
    /\ [][NextADXLlive]_vars
    /\ []<>(lastCall = "mainLoop")
    /\ []<>(lastCall = "ADXL345update")
    /\ WF_vars(TickADXL)

\* the accelerometer with every public call
NextADXLapi ==
    \/ ADXL345update(ApiSamples)
    \/ ADXL345initialise
    \/ \E axis \in Axes : ADXL345hasChanged(axis)
    \/ \E axis \in Axes : getAngleDegreesTenths(axis)
    \/ ADXLzeroDown
    \/ ADXLcancelZeroing
    \/ TickADXL
SpecADXLapi == Init /\ [][NextADXLapi]_vars

\* the integration of a FIFO whose contents are known, in Measuring
InitFIFO == \E fifo \in FifoStreams : InitAt("stMeasuring", fifo)
NextFIFO == MeasureFIFO \/ TickADXL
SpecFIFO == InitFIFO /\ [][NextFIFO]_vars

\* SSD1306_printAngleTenths() as the first call made after construction, with
\* any angle
NextAngle == lastCall = "NONE" /\ SSD1306_printAngleTenthsOf(Int16)
SpecAngle == Init /\ [][NextAngle]_vars

\* the display with buffer-preparation calls made at any time
NextSSD ==
    \/ SSD1306update
    \/ SSD1306drawBaseScreen
    \/ SSD1306_printAngleTenths
    \/ SSD1306_printReferentialIcon
    \/ SSD1306_printHoldIcon
    \/ DMAtransferEnds
    \/ TickSSD
SpecSSD == Init /\ [][NextSSD]_vars

\* the display with buffer-preparation calls made only when isScreenReady()
NextSSDready ==
    \/ SSD1306update
    \/ isScreenReady /\ SSD1306drawBaseScreen
    \/ isScreenReady /\ SSD1306_printAngleTenths
    \/ isScreenReady /\ SSD1306_printReferentialIcon
    \/ isScreenReady /\ SSD1306_printHoldIcon
    \/ DMAtransferEnds
    \/ TickSSD
SpecSSDready == Init /\ [][NextSSDready]_vars

\* the same, with a scheduler that keeps calling SSD1306update and a tick
\* source that keeps running
SpecSSDlive == SpecSSDready /\ WF_vars(SSD1306update) /\ WF_vars(TickSSD)

\* the bus transactions, statement by statement, with the tick source
NextBus ==
    \/ writeRegisterCall
    \/ writeRegisterStep
    \/ readRegistersCall
    \/ readRegistersStep
    \/ sendCommandCall
    \/ sendCommandStep
    \/ BusReturn
    \/ BusTick
SpecBus == Init /\ [][NextBus]_vars

\* the same, the processor running the function in progress and the tick
\* source running
SpecBuslive ==
    /\ SpecBus
    /\ WF_vars(writeRegisterStep)
    /\ WF_vars(readRegistersStep)
    /\ WF_vars(sendCommandStep)
    /\ WF_vars(BusTick)

-----------------------------------------------------------------------------
(* Properties                                                              *)

\* C1 : once the accelerometer state machine is in Error, no call of
\* ADXL345update, ADXL345initialise, ADXL345hasChanged, getAngleDegreesTenths,
\* ADXLzeroDown or ADXLcancelZeroing and no tick takes it out of Error.
C1_ErrorIsTerminal ==
    [][adxl_state = "stError" => adxl_state' = "stError"]_vars

\* an update ran in Error and left the machine in Error
C1_Witness ==
    /\ lastCall = "ADXL345update"
    /\ prevState = "stError"
    /\ adxl_state = "stError"

\* the bus activity of one state : the registers it writes, in order, and
\* the number of burst reads it makes at most
StateWrites(state) ==
    CASE state = "stConfiguring" ->
            <<DATA_FORMAT, BANDWIDTH_POWERMODE, FIFO_CONTROL, FIFO_CONTROL,
              POWER_CONTROL, INTERRUPT_ENABLE>>
      [] state = "stMeasuringST_OFF" -> <<DATA_FORMAT, FIFO_CONTROL>>
      [] state = "stWaitingForSTenabled" -> <<FIFO_CONTROL>>
      [] state = "stMeasuringST_ON" -> <<DATA_FORMAT>>
      [] OTHER -> <<>>
StateReads(state) ==
    CASE state = "stStartup" -> 1
      [] state \in {"stMeasuringST_OFF", "stMeasuringST_ON", "stMeasuring"} -> ADXL_AVG_SAMPLES
      [] OTHER -> 0
IsPrefix(s, t) == Len(s) <= Len(t) /\ \A i \in 1 .. Len(s) : s[i] = t[i]

\* C2 : an ADXL345update call does the bus activity of the state it was
\* entered in only, and leaves the state unchanged, or at the next state of
\* Startup, Configuring, MeasuringSelfTestOff, WaitingForSelfTestEnabled,
\* MeasuringSelfTestOn, Measuring, or at Error.
C2_OneStateForward ==
    [][/\ \/ adxl_state' = adxl_state
          \/ adxl_state' = "stError"
          \/ \E i \in 1 .. (Len(AdxlStates) - 1) :
                adxl_state = AdxlStates[i] /\ adxl_state' = AdxlStates[i + 1]
       /\ lastCall' = "ADXL345update" =>
             /\ IsPrefix([i \in 1 .. Len(adxl_written') |-> adxl_written'[i].register],
                         StateWrites(adxl_state))
             /\ adxl_reads' <= StateReads(adxl_state)]_vars

\* the last step of the sequence was taken
C2_Witness ==
    /\ lastCall = "ADXL345update"
    /\ prevState = "stMeasuringST_ON"
    /\ adxl_state = "stMeasuring"

\* C3 : in WaitingForSelfTestEnabled an update made while the settle timer
\* is still running writes no register and leaves the state; the FIFO is
\* re-enabled and the state advances only once the timer is zero.
C3_SettleDelayRespected ==
    [][(adxl_state = "stWaitingForSTenabled" /\ lastCall' = "ADXL345update") =>
          /\ adxlTimer_ms # 0 =>
                (adxl_state' = "stWaitingForSTenabled" /\ adxl_written' = <<>>)
          /\ adxl_state' = "stMeasuringST_ON" => adxlTimer_ms = 0]_vars

\* what the code does : the write is made while the timer runs
C3_Witness ==
    /\ lastCall = "ADXL345update"
    /\ prevState = "stWaitingForSTenabled"
    /\ adxl_state = "stMeasuringST_ON"

\* C4 : in MeasuringSelfTestOn a set of deltas inside the closed windows
\* (a delta on a bound included) is accepted, the call going on to reset the
\* data format; a delta one unit beyond a bound drives the state to Error.
C4_BoundsInclusive ==
    [][(adxl_state = "stMeasuringST_ON" /\ lastCall' = "ADXL345update"
            /\ adxl_STdeltas' # <<>>) =>
          /\ (\A axis \in Axes :
                 /\ adxl_STdeltas'[axis] >= ST_MAXDELTAS[axis][1]
                 /\ adxl_STdeltas'[axis] <= ST_MAXDELTAS[axis][2])
                => adxl_written' # <<>>
          /\ (\E axis \in Axes :
                 \/ adxl_STdeltas'[axis] = ST_MAXDELTAS[axis][1] - 1
                 \/ adxl_STdeltas'[axis] = ST_MAXDELTAS[axis][2] + 1)
                => adxl_state' = "stError"]_vars

\* a delta on the lower bound of X, the others inside, was handled
C4_Witness ==
    /\ lastCall = "ADXL345update"
    /\ prevState = "stMeasuringST_ON"
    /\ adxl_STdeltas # <<>>
    /\ adxl_STdeltas[X_AXIS] = ST_MAXDELTAS[X_AXIS][1]

\* C5 : an ADXL345update call that moves the machine into Error returns a
\* failure code, and a call that returns no failure returns the zero code.
C5_ErrorReturnsFailure ==
    [][lastCall' = "ADXL345update" =>
          /\ (adxl_state # "stError" /\ adxl_state' = "stError") => isError(adxl_ret')
          /\ ~isError(adxl_ret') => adxl_ret' = ERR_SUCCESS]_vars

\* C6 : in Startup a failed read of the identity register moves the machine
\* to Error in the same call.
C6_StartupReadFailure ==
    [][(adxl_state = "stStartup" /\ lastCall' = "ADXL345update"
            /\ adxl_reads' = 1 /\ isError(adxl_result')) =>
          adxl_state' = "stError"]_vars

\* the documented order of the configuration writes
C7_DocumentedOrder ==
    <<[register |-> DATA_FORMAT,         value |-> DATA_FORMAT_DEFAULT],
      [register |-> BANDWIDTH_POWERMODE, value |-> {"ADXL_POWER_NORMAL", "ADXL_RATE_200HZ"}],
      [register |-> FIFO_CONTROL,        value |-> {"ADXL_MODE_BYPASS"}],
      [register |-> FIFO_CONTROL,        value |-> {"ADXL_MODE_FIFO", "ADXL_INT_MAP_INT1",
                                                    "ADXL_AVG_SAMPLES - 1"}],
      [register |-> POWER_CONTROL,       value |-> {"ADXL_MEASURE_MODE"}],
      [register |-> INTERRUPT_ENABLE,    value |-> {"ADXL_INT_WATERMARK"}]>>

\* C7 : the writes of an update in Configuring are a prefix of the documented
\* list, every write but the last one made succeeded, the state is Error iff
\* the last write made failed and MeasuringSelfTestOff iff the six writes
\* succeeded.
C7_ConfigurationOrder ==
    (lastCall = "ADXL345update" /\ prevState = "stConfiguring") =>
        LET n == Len(adxl_written)
        IN  /\ n >= 1
            /\ IsPrefix([i \in 1 .. n |-> [register |-> adxl_written[i].register,
                                           value |-> adxl_written[i].value]],
                        C7_DocumentedOrder)
            /\ \A i \in 1 .. (n - 1) : adxl_written[i].ok
            /\ adxl_state = "stError" <=> ~adxl_written[n].ok
            /\ adxl_state = "stMeasuringST_OFF" <=>
                  (n = Len(C7_DocumentedOrder) /\ adxl_written[n].ok)
            /\ adxl_state \in {"stError", "stMeasuringST_OFF"}

\* the six writes were made and the machine went on
C7_Witness ==
    /\ lastCall = "ADXL345update"
    /\ prevState = "stConfiguring"
    /\ adxl_state = "stMeasuringST_OFF"
    /\ Len(adxl_written) = NB_REG_INIT

\* C8 : an SSD1306update call in WaitingForTransferDone moves the display to
\* Idle, the DMA channel and the bus disabled, when the completion flag or
\* the error flag is set or the outer screen timer is zero, and leaves it in
\* WaitingForTransferDone otherwise.
C8_TransferEndsInIdle ==
    [][(ssd_state = "stWaitingForTXdone" /\ lastCall' = "SSD1306update") =>
          IF dmaTC \/ dmaTE \/ screenTimer_ms = 0
          THEN ssd_state' = "stIdle" /\ ~dmaChannelEnabled' /\ ~ssd_spiEnabled'
          ELSE ssd_state' = "stWaitingForTXdone"]_vars

\* a transfer in error was polled with the timer still running
C8_Witness ==
    /\ lastCall = "SSD1306update"
    /\ prevState = "stWaitingForTXdone"
    /\ ssd_state = "stIdle"
    /\ ssd_ret = createErrorCode("WAITING_DMA_RDY", 2, "error")

\* C9 : with SSD1306update called again and again, the tick source running
\* and buffer-preparation calls made only when the display is ready, a
\* display in SendingData or WaitingForTransferDone comes back to Idle.
C9_BackToIdle ==
    (ssd_state \in {"stSendingData", "stWaitingForTXdone"}) ~> (ssd_state = "stIdle")

\* a transfer that never completed was given up and the display is Idle
C9_Witness ==
    /\ lastCall = "SSD1306update"
    /\ prevState = "stWaitingForTXdone"
    /\ ssd_state = "stIdle"
    /\ ~dmaTC /\ ~dmaTE
    /\ ssd_ret = createErrorCode("WAITING_DMA_RDY", 1, "error")

\* the rectangle and byte count each buffer-preparation call documents
C10_Rectangle(staged) ==
    CASE staged.call = "SSD1306drawBaseScreen" ->
            [columns |-> <<0, 127>>, pages |-> <<0, SSD_LAST_PAGE>>, size |-> 1024]
      [] staged.call = "SSD1306_printAngleTenths" ->
            [columns |-> <<40, 40 + (ANGLE_NB_CHARS * VERDANA_CHAR_WIDTH) - 1>>,
             pages   |-> IF staged.argument = "ROLL" THEN <<1, 2>> ELSE <<5, 6>>,
             size    |-> ANGLE_NB_CHARS * VERDANA_NB_BYTES_CHAR]
      [] staged.call = "SSD1306_printReferentialIcon" ->
            [columns |-> <<REFTYPE_COLUMN, REFTYPE_COLUMN + REFERENCETYPE_NB_BYTES>>,
             pages   |-> <<REFTYPE_PAGE, REFTYPE_PAGE>>,
             size    |-> REFERENCETYPE_NB_BYTES]
      [] staged.call = "SSD1306_printHoldIcon" ->
            [columns |-> <<REFTYPE_COLUMN - REFERENCETYPE_NB_BYTES, REFTYPE_COLUMN>>,
             pages   |-> <<REFTYPE_PAGE, REFTYPE_PAGE>>,
             size    |-> REFERENCETYPE_NB_BYTES]

PreparationCalls == {"SSD1306drawBaseScreen", "SSD1306_printAngleTenths",
                     "SSD1306_printReferentialIcon", "SSD1306_printHoldIcon"}

\* C10 : a buffer-preparation call leaves the display in SendingData with its
\* own rectangle and byte count staged; the update that follows sends the
\* column range, then the page range, of that rectangle and, both commands
\* done, hands its byte count to the DMA; isScreenReady() is false meanwhile.
C10_StagedRegionIsSent ==
    LET rect == C10_Rectangle(ssd_staged)
    IN  /\ lastCall \in PreparationCalls =>
              /\ prevState = "stIdle"
              /\ ssd_state = "stSendingData"
              /\ ssd_limitColumns = rect.columns
              /\ ssd_limitPages = rect.pages
              /\ ssd_size = rect.size
              /\ ~isScreenReady
        /\ (lastCall = "SSD1306update" /\ prevState = "stSendingData") =>
              /\ Len(ssd_sent) >= 1
              /\ IsPrefix([i \in 1 .. Len(ssd_sent) |->
                              <<ssd_sent[i].register, ssd_sent[i].parameters>>],
                          <<<<"COLUMN_ADDRESS", rect.columns>>,
                            <<"PAGE_ADDRESS", rect.pages>>>>)
              /\ ssd_state = "stWaitingForTXdone" =>
                    /\ Len(ssd_sent) = 2
                    /\ \A i \in 1 .. 2 :
                          ssd_sent[i].tx = <<ssd_sent[i].register>> \o ssd_sent[i].parameters
                    /\ dmaDataLength = rect.size
                    /\ dmaChannelEnabled
        /\ ssd_state \in {"stSendingData", "stWaitingForTXdone"} => ~isScreenReady

\* the hold icon staged from Idle is on its way to the display
C10_Witness ==
    /\ lastCall = "SSD1306update"
    /\ prevState = "stSendingData"
    /\ ssd_state = "stWaitingForTXdone"
    /\ ssd_staged.call = "SSD1306_printHoldIcon"
    /\ dmaDataLength = REFERENCETYPE_NB_BYTES

\* the area, in bytes, of the staged rectangle : one byte per column and page
C11_StagedArea ==
    (ssd_limitColumns[2] - ssd_limitColumns[1] + 1)
        * (ssd_limitPages[2] - ssd_limitPages[1] + 1)

\* C11 : after a buffer-preparation call the area of the staged rectangle is
\* the staged byte count, and the rectangle lies inside the MAX_DATA_SIZE
\* bytes of display memory (columns 0 .. SSD_LAST_COLUMN, one page per
\* SSD_LAST_COLUMN + 1 bytes).
C11_RectangleMatchesSize ==
    lastCall \in PreparationCalls =>
        /\ C11_StagedArea = ssd_size
        /\ ssd_limitColumns[1] <= ssd_limitColumns[2]
        /\ ssd_limitPages[1] <= ssd_limitPages[2]
        /\ ssd_limitColumns[2] <= SSD_LAST_COLUMN
        /\ (ssd_limitPages[2] + 1) * (SSD_LAST_COLUMN + 1) <= MAX_DATA_SIZE

\* the base screen was staged
C11_Witness ==
    /\ lastCall = "SSD1306drawBaseScreen"
    /\ ssd_state = "stSendingData"
    /\ ssd_size = MAX_DATA_SIZE

\* the bitmap each buffer-preparation call copies at the head of the buffer
C12_Image(staged) ==
    CASE staged.call = "SSD1306drawBaseScreen" -> "baseScreen"
      [] staged.call = "SSD1306_printAngleTenths" -> "angle"
      [] staged.call = "SSD1306_printReferentialIcon" ->
            IF staged.argument = "ABSOLUTE" THEN "absoluteReferentialIcon"
                                            ELSE "relativeReferentialIcon"
      [] staged.call = "SSD1306_printHoldIcon" ->
            IF staged.argument = "HOLD" THEN "holdIcon" ELSE "blank"

\* C12 : a buffer-preparation call made in any state, WaitingForTransferDone
\* included, leaves the display in SendingData with its own rectangle, byte
\* count and bitmap in place of those of the transfer in flight, and does not
\* touch the DMA; the update that follows runs SendingData, which reports
\* nothing about the DMA flags and, its two address commands done, clears
\* them and restarts the channel with the new byte count.
C12_PreparationOverridesTransfer ==
    [][/\ lastCall' \in PreparationCalls =>
             /\ ssd_state' = "stSendingData"
             /\ ssd_limitColumns' = C10_Rectangle(ssd_staged').columns
             /\ ssd_limitPages' = C10_Rectangle(ssd_staged').pages
             /\ ssd_size' = C10_Rectangle(ssd_staged').size
             /\ ssd_screenBuffer'.image = C12_Image(ssd_staged')
             /\ UNCHANGED <<dmaChannelEnabled, dmaDataLength, dmaRequestTX, dmaTC, dmaTE,
                            screenTimer_ms>>
       /\ (ssd_state = "stSendingData" /\ lastCall' = "SSD1306update") =>
             /\ ssd_ret'.origin # "WAITING_DMA_RDY"
             /\ ssd_state' \in {"stIdle", "stWaitingForTXdone"}
             /\ ssd_state' = "stWaitingForTXdone" =>
                   /\ ~dmaTC' /\ ~dmaTE'
                   /\ dmaChannelEnabled'
                   /\ dmaDataLength' = ssd_size]_vars

\* the hold icon was staged while the transfer of the base screen was in
\* flight, neither complete nor in error
C12_Witness ==
    /\ lastCall = "SSD1306_printHoldIcon"
    /\ prevState = "stWaitingForTXdone"
    /\ ssd_state = "stSendingData"
    /\ dmaChannelEnabled /\ ~dmaTC /\ ~dmaTE
    /\ dmaDataLength = MAX_DATA_SIZE
    /\ ssd_size = REFERENCETYPE_NB_BYTES

\* C13 : a register write called with a register number of the reserved
\* range 1 .. ADXL_HIGH_RESERVED_REG, or above ADXL_REGISTER_MAXNB, returns
\* the range error at once : the transaction timer is not armed, the bus is
\* not enabled and no byte is handed to it.
C13_ReservedWriteRejected ==
    [][(/\ bus.pc = "idle"
        /\ bus'.fn = "writeRegister"
        /\ \/ bus'.register \in 1 .. ADXL_HIGH_RESERVED_REG
           \/ bus'.register > ADXL_REGISTER_MAXNB) =>
          /\ bus'.pc = "done"
          /\ bus'.result = createErrorCode("WRITE_REGISTER", 1, "warning")
          /\ isError(bus'.result)
          /\ ~bus'.armed
          /\ bus'.tx = 0
          /\ adxlSPITimer_ms' = adxlSPITimer_ms
          /\ ~adxl_spiEnabled /\ ~adxl_spiEnabled']_vars

\* the highest reserved register was refused, the timer of an earlier
\* transaction still running
C13_Witness ==
    /\ bus.fn = "writeRegister"
    /\ bus.pc = "done"
    /\ bus.register = ADXL_HIGH_RESERVED_REG
    /\ isError(bus.result)
    /\ adxlSPITimer_ms \in 1 .. (SPI_TIMEOUT_MS - 1)

\* a burst read of a non-zero byte count was refused before any bus activity
C14_Refused ==
    /\ bus'.pc = "done"
    /\ bus'.result = createErrorCode("READ_REGISTERS", 1, "warning")
    /\ ~bus'.armed
    /\ bus'.tx = 0
    /\ adxlSPITimer_ms' = adxlSPITimer_ms
    /\ ~adxl_spiEnabled'

\* C14 (as claimed) : a burst read of a non-zero byte count validates its
\* first register as the register write does : a number above
\* ADXL_REGISTER_MAXNB or in the reserved range is refused with the range
\* error before the timer is armed and before a byte is transmitted.
C14_SameValidationAsWrite ==
    [][(/\ bus.pc = "idle"
        /\ bus'.fn = "readRegisters"
        /\ bus'.size # 0
        /\ writeRegisterOutOfRange(bus'.register)) => C14_Refused]_vars

\* C14 (amended) : a burst read of a non-zero byte count refuses a first
\* register above ADXL_REGISTER_MAXNB before the timer is armed and before a
\* byte is transmitted, and no other : for a first register of the reserved
\* range the timer is armed, the bus enabled and the opcode transmitted.
C14_AboveOnlyRefused ==
    [][(/\ bus.pc = "idle"
        /\ bus'.fn = "readRegisters"
        /\ bus'.size # 0) =>
          IF bus'.register > ADXL_REGISTER_MAXNB
          THEN C14_Refused
          ELSE /\ bus'.pc = "waitOpcode"
               /\ bus'.armed
               /\ bus'.tx = 1
               /\ adxlSPITimer_ms' = SPI_TIMEOUT_MS
               /\ adxl_spiEnabled']_vars

\* a read starting in the reserved range went through the bus and succeeded
C14_Witness ==
    /\ bus.fn = "readRegisters"
    /\ bus.pc = "done"
    /\ bus.register = ADXL_HIGH_RESERVED_REG
    /\ bus.armed
    /\ bus.tx = 1 + bus.size
    /\ bus.result = ERR_SUCCESS

\* the timeout code of the function in progress
C15_Timeout ==
    createErrorCode(CASE bus.fn = "writeRegister" -> "WRITE_REGISTER"
                      [] bus.fn = "readRegisters" -> "READ_REGISTERS"
                      [] OTHER -> "SEND_CMD",
                    2, "warning")

C16_TransactionsTerminate ==
    (bus.pc \notin {"idle", "done"}) ~> (bus.pc = "done")

\* a transaction one wait of which never saw its flag has returned, in failure
C16_Witness ==
    /\ bus.pc = "done"
    /\ bus.armed
    /\ bus.resp.kind \in {"txeStuck", "rxneStuck", "bsyStuck"}
    /\ bus.resp.kind = "bsyStuck" \/ bus.resp.at < bus.waits
    /\ isError(bus.result)

\* C17 : the call that takes the accelerometer to Error, and every call made
\* afterwards, leaves the live sample set as it was : the set the last
\* successful integration produced.
C17_MeasurementsFrozen ==
    [][adxl_state' = "stError" => adxl_latestValues' = adxl_latestValues]_vars

\* an integration in Measuring failed at its last burst read
C17_Witness ==
    /\ lastCall = "ADXL345update"
    /\ prevState = "stMeasuring"
    /\ adxl_state = "stError"
    /\ adxl_reads = ADXL_AVG_SAMPLES
    /\ adxl_ret = createErrorCode("MEASURE", 2, "warning")

\* C18 : ADXL345hasChanged(axis) returns true exactly when the live value of
\* the axis differs from its last-queried value, then makes the last-queried
\* value of that axis, and of no other, equal to the live value; called again
\* for the same axis right away it returns false.
C18_ChangeDetectedOncePerAxis ==
    [][lastCall' = "ADXL345hasChanged" =>
        LET axis == adxl_hasChangedAxis' IN
        /\ adxl_hasChangedRet'
            = (adxl_latestValues[axis] # adxl_previousValues[axis])
        /\ adxl_previousValues'[axis] = adxl_latestValues[axis]
        /\ \A other \in Axes \ {axis} :
            adxl_previousValues'[other] = adxl_previousValues[other]
        /\ adxl_latestValues' = adxl_latestValues
        /\ (lastCall = "ADXL345hasChanged" /\ adxl_hasChangedAxis = axis)
            => ~adxl_hasChangedRet'
    ]_vars

\* a query reported a change on one axis while another axis, also changed,
\* kept its stale last-queried value
C18_Witness ==
    /\ lastCall = "ADXL345hasChanged"
    /\ adxl_hasChangedRet
    /\ adxl_previousValues[adxl_hasChangedAxis]
        = adxl_latestValues[adxl_hasChangedAxis]
    /\ \E other \in Axes \ {adxl_hasChangedAxis} :
        adxl_previousValues[other] # adxl_latestValues[other]

\* what a zeroing call has no business with : everything the accelerometer
\* driver holds but the zero offsets, and the whole display driver
C19_RestOfDrivers ==
    <<adxl_state, adxlTimer_ms, adxlSPITimer_ms, adxl_result,
      adxl_measurementsUpdated, adxl_latestValues, adxl_previousValues,
      adxl_spiEnabled, ssdVars>>

\* C19 : whatever calls were made, the Z zero offset is 0; ADXLzeroDown() makes
\* the X and Y offsets the negation of the live X and Y samples, so that the
\* compensated X and Y are 0, and changes nothing else; ADXLcancelZeroing()
\* makes the three offsets 0 and changes nothing else.
C19_ZeroingOnlyXandY ==
    /\ [](adxl_zeroValues[Z_AXIS] = 0)
    /\ [][lastCall' = "ADXLzeroDown" =>
            /\ adxl_zeroValues'[X_AXIS] = -adxl_latestValues[X_AXIS]
            /\ adxl_zeroValues'[Y_AXIS] = -adxl_latestValues[Y_AXIS]
            /\ adxl_zeroValues'[Z_AXIS] = adxl_zeroValues[Z_AXIS]
            /\ adxl_latestValues'[X_AXIS] + adxl_zeroValues'[X_AXIS] = 0
            /\ adxl_latestValues'[Y_AXIS] + adxl_zeroValues'[Y_AXIS] = 0
            /\ UNCHANGED C19_RestOfDrivers
       ]_vars
    /\ [][lastCall' = "ADXLcancelZeroing" =>
            /\ \A axis \in Axes : adxl_zeroValues'[axis] = 0
            /\ UNCHANGED C19_RestOfDrivers
       ]_vars

\* zeroing was done on a deflected measurement : X and Y are compensated by
\* non-zero offsets while the live Z sample is not zero and its offset is
C19_Witness ==
    /\ lastCall = "ADXLzeroDown"
    /\ adxl_latestValues[X_AXIS] # 0
    /\ adxl_latestValues[Y_AXIS] # 0
    /\ adxl_latestValues[Z_AXIS] # 0
    /\ adxl_zeroValues[X_AXIS] = -adxl_latestValues[X_AXIS]
    /\ adxl_zeroValues[Y_AXIS] = -adxl_latestValues[Y_AXIS]
    /\ adxl_zeroValues[Z_AXIS] = 0

\* the sum, over the samples i and after of the FIFO, of the values measured
\* on one axis
RECURSIVE C20_Sum(_, _)
C20_Sum(i, axis) ==
    IF i >= ADXL_AVG_SAMPLES THEN 0 ELSE adxl_fifo[i][axis] + C20_Sum(i + 1, axis)

\* the last call integrated the FIFO without a failure
C20_Integrated ==
    /\ lastCall = "ADXL345update"
    /\ prevState = "stMeasuring"
    /\ adxl_reads > 0
    /\ ~isError(adxl_ret)

\* C20 : a successful FIFO integration made 32 burst reads of six bytes and
\* leaves, for each axis, the floor of the sum of the 32 measured values
\* (each recovered from its two bytes, low byte first, as a signed 16-bit
\* number) divided by 32 : the mean when the sum is a multiple of 32, for
\* negative sums as for positive ones.
C20_MeanByShift ==
    C20_Integrated =>
        /\ adxl_reads = 32
        /\ ADXL_AVG_SAMPLES = 32
        /\ ADXL_NB_DATA_REGISTERS = 6
        /\ ADXL_AVG_SHIFT = 5
        /\ \A axis \in Axes :
            LET sum == C20_Sum(0, axis)
            IN  /\ 32 * adxl_latestValues[axis] <= sum
                /\ sum < 32 * (adxl_latestValues[axis] + 1)
                /\ (sum % 32 = 0) => (32 * adxl_latestValues[axis] = sum)

\* an integration succeeded on a FIFO whose sum is negative and not a
\* multiple of 32 on one axis, and a negative multiple of 32 on another
C20_Witness ==
    /\ C20_Integrated
    /\ \E axis \in Axes : C20_Sum(0, axis) < 0 /\ C20_Sum(0, axis) % 32 # 0
    /\ \E axis \in Axes : C20_Sum(0, axis) < 0 /\ C20_Sum(0, axis) % 32 = 0

\* the angle the last SSD1306_printAngleTenths() was given, held in [-900, 900]
C21_Clamped ==
    IF ssd_staged.angle < -900 THEN -900
    ELSE IF ssd_staged.angle > 900 THEN 900 ELSE ssd_staged.angle

\* C21 : whatever 16-bit signed angle SSD1306_printAngleTenths() is given,
\* -32768 included, the glyphs it stages are those of the angle clamped to
\* [-900, +900] : the minus sign exactly when the clamped value is negative,
\* then the tens, units and tenths digits (each in 0..9) of its absolute
\* value; below -900 the glyphs read -90.0 and above +900 they read +90.0.
C21_ClampedAngleRendered ==
    lastCall = "SSD1306_printAngleTenths" =>
        LET glyphs   == ssd_screenBuffer.glyphs
            absolute == IF C21_Clamped < 0 THEN -C21_Clamped ELSE C21_Clamped
        IN  /\ ssd_staged.angle \in Int16
            /\ Len(glyphs) = 6
            /\ (glyphs[1] = INDEX_MINUS) <=> (C21_Clamped < 0)
            /\ glyphs[1] \in {INDEX_MINUS, INDEX_PLUS}
            /\ glyphs[4] = INDEX_DOT
            /\ glyphs[6] = INDEX_DEG
            /\ \A i \in {2, 3, 5} : glyphs[i] \in 0 .. 9
            /\ (100 * glyphs[2]) + (10 * glyphs[3]) + glyphs[5] = absolute
            /\ ssd_staged.angle < -900 =>
                  glyphs = <<INDEX_MINUS, 9, 0, INDEX_DOT, 0, INDEX_DEG>>
            /\ ssd_staged.angle > 900 =>
                  glyphs = <<INDEX_PLUS, 9, 0, INDEX_DOT, 0, INDEX_DEG>>

\* the most negative 16-bit angle was printed, as -90.0
C21_Witness ==
    /\ lastCall = "SSD1306_printAngleTenths"
    /\ ssd_staged.angle = -32768
    /\ ssd_screenBuffer.glyphs = <<INDEX_MINUS, 9, 0, INDEX_DOT, 0, INDEX_DEG>>

\* the forward transitions other than the one that starts the settle delay
C22_FullSpanTransitions ==
    {<<"stStartup", "stConfiguring">>,
     <<"stConfiguring", "stMeasuringST_OFF">>,
     <<"stWaitingForSTenabled", "stMeasuringST_ON">>,
     <<"stMeasuringST_ON", "stMeasuring">>}

\* C22 : the update call that moves the accelerometer one state forward
\* leaves the outer timer re-armed : at ST_WAIT_MS (25 ms) from
\* MeasuringSelfTestOff to WaitingForSelfTestEnabled, at INT_TIMEOUT_MS
\* (1000 ms) on every other forward transition and when a watermark was
\* handled in Measuring.
C22_ForwardTransitionRearms ==
    [][lastCall' = "ADXL345update" =>
        /\ (adxl_state = "stMeasuringST_OFF" /\ adxl_state' = "stWaitingForSTenabled")
              => adxlTimer_ms' = 25
        /\ <<adxl_state, adxl_state'>> \in C22_FullSpanTransitions
              => adxlTimer_ms' = 1000
        /\ (adxl_state = "stMeasuring" /\ adxl_state' = "stMeasuring" /\ adxl_reads' > 0)
              => adxlTimer_ms' = 1000
    ]_vars

\* the identity matched after time had passed in Startup : the machine is in
\* Configuring with the outer timer below its full span
C22_Witness ==
    /\ lastCall = "ADXL345update"
    /\ prevState = "stStartup"
    /\ adxl_state = "stConfiguring"
    /\ adxlTimer_ms < INT_TIMEOUT_MS
    /\ adxlTimer_ms > 0

\* the self-test deltas the last call computed are inside the three windows
C23_DeltasInside(deltas) ==
    /\ deltas # <<>>
    /\ 85 < deltas[X_AXIS] /\ deltas[X_AXIS] < 949
    /\ -949 < deltas[Y_AXIS] /\ deltas[Y_AXIS] < -85
    /\ 118 < deltas[Z_AXIS] /\ deltas[Z_AXIS] < 1294

\* C23 : the accelerometer enters Measuring only by an update made in
\* MeasuringSelfTestOn with the outer timer not at zero, in which the FIFO
\* was integrated (the watermark being asserted) without a failure, the
\* three self-test deltas were inside their windows and the write that
\* clears the self-test bit succeeded; so in Measuring the data-format
\* register last received a value without the self-test bit and FIFO control
\* last received the watermark mode.
C23_MeasuringOnlyAfterSelfTest ==
    /\ [][(adxl_state # "stMeasuring" /\ adxl_state' = "stMeasuring") =>
            /\ lastCall' = "ADXL345update"
            /\ adxl_state = "stMeasuringST_ON"
            /\ adxlTimer_ms # 0
            /\ adxl_reads' = ADXL_AVG_SAMPLES
            /\ ~isError(adxl_result')
            /\ ~isError(adxl_ret')
            /\ C23_DeltasInside(adxl_STdeltas')
            /\ Len(adxl_written') = 1
            /\ adxl_written'[1].register = DATA_FORMAT
            /\ "ADXL_SELF_TEST" \notin adxl_written'[1].value
            /\ adxl_written'[1].ok
       ]_vars
    /\ [](adxl_state = "stMeasuring" =>
            /\ "ADXL_SELF_TEST" \notin adxl_registers[DATA_FORMAT]
            /\ "ADXL_NO_SELF_TEST" \in adxl_registers[DATA_FORMAT]
            /\ adxl_registers[FIFO_CONTROL] = FIFO_CONTROL_DEFAULT)

\* Measuring was just entered, on a self-test that deflected the three axes
\* from a baseline at rest
C23_Witness ==
    /\ lastCall = "ADXL345update"
    /\ prevState = "stMeasuringST_ON"
    /\ adxl_state = "stMeasuring"
    /\ adxl_STdeltas # <<>>
    /\ adxl_STdeltas = DeflectedSample
    /\ adxl_latestValues = RestSample
    /\ adxl_registers[DATA_FORMAT] = DATA_FORMAT_DEFAULT

\* C24 : an update made in Startup with the outer timer not at zero and an
\* identity read that succeeded moves to Configuring exactly when the byte
\* read is the expected identity, and otherwise stays in Startup and returns
\* the zero code; with the outer timer at zero it reads nothing on the bus,
\* moves to Error and returns a failure of severity critical.
C24_StartupOutcome ==
    [][(lastCall' = "ADXL345update" /\ adxl_state = "stStartup") =>
        IF adxlTimer_ms = 0
        THEN /\ adxl_reads' = 0
             /\ adxl_state' = "stError"
             /\ isError(adxl_ret')
             /\ adxl_ret'.severity = "critical"
        ELSE /\ adxl_reads' = 1
             /\ ~isError(adxl_result') =>
                   /\ (adxl_state' = "stConfiguring") <=> (adxl_deviceID' = ADXL_DEVICE_ID)
                   /\ (adxl_deviceID' # ADXL_DEVICE_ID) => adxl_state' = "stStartup"
                   /\ adxl_ret' = ERR_SUCCESS
    ]_vars

\* the identity register was read without a failure and held another value :
\* the machine stayed in Startup and the call returned the zero code
C24_Witness ==
    /\ lastCall = "ADXL345update"
    /\ prevState = "stStartup"
    /\ adxl_state = "stStartup"
    /\ adxl_reads = 1
    /\ ~isError(adxl_result)
    /\ adxl_deviceID # ADXL_DEVICE_ID
    /\ adxl_ret = ERR_SUCCESS

\* the DMA channel and the DMA request of the bus, as a call found them
C25_Transfer == <<dmaChannelEnabled, dmaDataLength, dmaRequestTX>>

\* C25 : an update made in SendingData sends the column-address-range
\* command with the staged columns, then the page-address-range command with
\* the staged pages; both having succeeded, it leaves the data/command line
\* on data, the DMA length at the staged byte count, the DMA channel and the
\* DMA request enabled, the outer timer armed and the state
\* WaitingForTransferDone; one of them having failed, it returns a failure,
\* sends nothing more, starts no transfer and leaves the state Idle.
C25_TransferAfterBothAddresses ==
    [][(lastCall' = "SSD1306update" /\ ssd_state = "stSendingData") =>
        LET sent == ssd_sent'
        IN  /\ Len(sent) \in {1, 2}
            /\ sent[1].register = "COLUMN_ADDRESS"
            /\ sent[1].parameters = ssd_limitColumns
            /\ Len(sent) = 2 =>
                  /\ sent[1].ok
                  /\ sent[2].register = "PAGE_ADDRESS"
                  /\ sent[2].parameters = ssd_limitPages
            /\ IF \A i \in 1 .. 2 : i <= Len(sent) /\ sent[i].ok
               THEN /\ ssd_dcPin' = "DATA"
                    /\ ssd_spiEnabled'
                    /\ dmaDataLength' = ssd_size
                    /\ dmaChannelEnabled'
                    /\ dmaRequestTX'
                    /\ screenTimer_ms' = SPI_TIMEOUT_MS
                    /\ ssd_state' = "stWaitingForTXdone"
                    /\ ssd_ret' = ERR_SUCCESS
               ELSE /\ isError(ssd_ret')
                    /\ ~sent[Len(sent)].ok
                    /\ UNCHANGED C25_Transfer
                    /\ ssd_dcPin' = "COMMAND"
                    /\ ~ssd_spiEnabled'
                    /\ ssd_state' = "stIdle"
    ]_vars

\* the column addresses went through and the page addresses did not : the
\* call failed and left the display in Idle, no transfer started
C25_Witness ==
    /\ lastCall = "SSD1306update"
    /\ prevState = "stSendingData"
    /\ ssd_state = "stIdle"
    /\ Len(ssd_sent) = 2
    /\ ssd_sent[1].ok
    /\ ~ssd_sent[2].ok
    /\ isError(ssd_ret)
    /\ ~dmaChannelEnabled

\* scan direction, pin configuration, segment remap, addressing mode,
\* contrast, clock, charge pump, display on
C26_SetupOrder ==
    <<"SCAN_DIRECTION_N1_0", "HARDWARE_CONFIG", "SEGMENT_REMAP_127", "MEMORY_ADDR_MODE",
      "CONTRAST_CONTROL", "CLOCK_DIVIDE_RATIO", "CHG_PUMP_REGULATOR", "DISPLAY_ON">>

\* what a preparation of the buffer stages
C26_Staged ==
    <<ssd_limitColumns, ssd_limitPages, ssd_size, ssd_screenBuffer, ssd_staged>>

\* C26 : an update made in Configuring pulses the reset line once and sends
\* the setup commands in the order scan direction, pin configuration, segment
\* remap, addressing mode, contrast, clock, charge pump, display on, up to the
\* first one that fails; the eight having succeeded it stages the base image
\* over columns 0..127 with a byte count of 1024 and moves to SendingData;
\* one having failed it returns a failure, stages nothing and stays in
\* Configuring, where the next update starts again from the reset pulse.
C26_SetupThenBaseScreen ==
    [][(lastCall' = "SSD1306update" /\ ssd_state = "stConfiguring") =>
        LET sent == ssd_sent'
        IN  /\ ssd_resets' = 1
            /\ Len(sent) \in 1 .. 8
            /\ \A i \in 1 .. Len(sent) :
                  /\ sent[i].register = C26_SetupOrder[i]
                  /\ i < Len(sent) => sent[i].ok
            /\ IF Len(sent) = 8 /\ sent[8].ok
               THEN /\ ssd_limitColumns' = <<0, 127>>
                    /\ ssd_size' = 1024
                    /\ ssd_screenBuffer'.image = "baseScreen"
                    /\ ssd_staged'.call = "SSD1306drawBaseScreen"
                    /\ ssd_state' = "stSendingData"
                    /\ ssd_ret' = ERR_SUCCESS
               ELSE /\ isError(ssd_ret')
                    /\ UNCHANGED C26_Staged
                    /\ ssd_state' = "stConfiguring"
    ]_vars

\* the fifth setup command failed : the call returned a failure after five
\* commands and left the display in Configuring, nothing staged
C26_Witness ==
    /\ lastCall = "SSD1306update"
    /\ prevState = "stConfiguring"
    /\ ssd_state = "stConfiguring"
    /\ ssd_resets = 1
    /\ Len(ssd_sent) = 5
    /\ ~ssd_sent[5].ok
    /\ isError(ssd_ret)
    /\ ssd_size = 0

\* the states of the start-up sequence
C27_StartingUp ==
    {"stStartup", "stConfiguring", "stMeasuringST_OFF", "stWaitingForSTenabled",
     "stMeasuringST_ON"}

\* C27 : ADXL345update() being called again and again and the tick source
\* running the outer timer down to zero, the accelerometer does not stay
\* for ever in a state of the start-up sequence : from each of them it comes
\* to Measuring or to Error.
C27_StartupFinishes ==
    (adxl_state \in C27_StartingUp) ~> (adxl_state \in {"stMeasuring", "stError"})

\* an update found the settle timer at zero in WaitingForSelfTestEnabled and
\* returned without moving
C27_Witness ==
    /\ lastCall = "ADXL345update"
    /\ prevState = "stWaitingForSTenabled"
    /\ adxl_state = "stWaitingForSTenabled"
    /\ adxlTimer_ms = 0
    /\ adxl_ret = ERR_SUCCESS
    /\ adxl_written = <<>>

\* the step is an update that sent an address command or started a transfer
C28_AddressOrTransfer ==
    /\ lastCall' = "SSD1306update"
    /\ \/ \E i \in 1 .. Len(ssd_sent') :
             ssd_sent'[i].register \in {"COLUMN_ADDRESS", "PAGE_ADDRESS"}
       \/ dmaChannelEnabled' /\ dmaRequestTX' /\ ~ssd_spiEnabled /\ ssd_spiEnabled'

\* C28 : buffer-preparation calls being made only while isScreenReady()
\* answers true, the display leaves Configuring only by an update that sent
\* the eight setup commands with success, sends no address command and
\* starts no DMA transfer while it is in Configuring, and never comes back to
\* Configuring.
C28_ConfiguredBeforeTransfers ==
    /\ [][ssd_state # "stConfiguring" => ssd_state' # "stConfiguring"]_vars
    /\ [][(ssd_state = "stConfiguring" /\ ssd_state' # "stConfiguring") =>
            /\ lastCall' = "SSD1306update"
            /\ Len(ssd_sent') = NB_INIT_REGISERS
            /\ \A i \in 1 .. NB_INIT_REGISERS :
                  ssd_sent'[i].ok /\ ssd_sent'[i].register = initCommands[i][1]
       ]_vars
    /\ [][C28_AddressOrTransfer => ssd_state # "stConfiguring"]_vars
    /\ [](ssd_state = "stConfiguring" => ~dmaChannelEnabled /\ ~dmaRequestTX)

\* the angle prepared while the display was ready is being transferred: the
\* update sent the two address commands and started the DMA
C28_Witness ==
    /\ lastCall = "SSD1306update"
    /\ prevState = "stSendingData"
    /\ ssd_state = "stWaitingForTXdone"
    /\ ssd_staged.call = "SSD1306_printAngleTenths"
    /\ dmaChannelEnabled
    /\ Len(ssd_sent) = 2


\* C29 : an update polled in WaitingForTransferDone while the DMA completion
\* flag is set and the DMA error flag is clear returns the zero code and
\* moves to Idle, whatever the outer screen timer holds at that time.
C29_CompletedTransferSucceeds ==
    [][(/\ lastCall' = "SSD1306update"
        /\ ssd_state = "stWaitingForTXdone"
        /\ dmaTC
        /\ ~dmaTE) =>
            (ssd_ret' = ERR_SUCCESS /\ ssd_state' = "stIdle")]_vars

\* the update polled a completed transfer after the screen timer had run
\* out, and returned a failure code
C29_Witness ==
    /\ lastCall = "SSD1306update"
    /\ prevState = "stWaitingForTXdone"
    /\ ssd_state = "stIdle"
    /\ dmaTC
    /\ ~dmaTE
    /\ screenTimer_ms = 0
    /\ isError(ssd_ret)
    /\ ssd_ret = createErrorCode("WAITING_DMA_RDY", 1, "error")

====
